---- MODULE Spec2Model ----
(***************************************************************************)
(* Model of the locable builder agent: the ask loop of BuilderAgent, its   *)
(* tool-call normalisation, the sandboxed file tools and the retrieval     *)
(* injector.                                                               *)
(*                                                                         *)
(* Representation.  A Python str is a sequence of tokens; a token is an    *)
(* atomic run of characters (a path segment, "/", a quote character, a     *)
(* fence, a URL, a line break).  Substring tests, split, strip and replace *)
(* work on tokens.  A filesystem path is the sequence of its segments from *)
(* "/".  The filesystem holds no symbolic links.                           *)
(***************************************************************************)
EXTENDS Integers, Sequences, FiniteSets, TLC

VARIABLES
    messages,     \* BuilderAgent.messages: the conversation
    files,        \* filesystem: absolute path -> content of each regular file
    dirs,         \* filesystem: the set of directories (absolute paths)
    pc,           \* position of the session: idle, send, exec, done, raised
    loop_guard,   \* ask's local loop_guard
    pending,      \* calls of the current model turn not yet executed
    turnCalls,    \* the calls taken from the current model reply
    reply,        \* the model reply being processed in this round trip
    ret,          \* what the last finished ask returned (NoReturn before)
    error,        \* the exception that ended ask ("" when none)
    store,        \* behaviour of the retrieval capability during this ask
    stub,         \* behaviour of the model service during this ask
    asks,         \* number of ask calls started
    inputs,       \* number of inputs the environment has given so far
    sent,         \* number of model requests of the current ask
    toolTurns,    \* number of replies of the current ask that yielded a call
    fsAtSend,     \* filesystem when the current reply was received
    execLog,      \* the tool executions of the session, oldest first
    request,      \* what the last model request of the session carried
    agents,       \* hosting layer: run id -> the BuilderAgent of the request
    heap,         \* hosting layer: reference -> the conversation list it names
    RUN_MESSAGES, \* hosting layer: run id -> the stored snapshot
    appended,     \* hosting layer: run id -> the messages its session appended
    writeLog,     \* hosting layer: the completed write_text calls, oldest first
    hostInputs,  \* hosting layer: inputs the environment has given so far
    response      \* hosting layer: the last response of GET /files/{path}

\* the variables of the hosting layer: a session on its own leaves them alone
hvars == <<agents, heap, RUN_MESSAGES, appended, writeLog, hostInputs, response>>

\* the variables of one session that the hosting layer keeps per request
svars == <<messages, pc, loop_guard, pending, turnCalls, reply, ret, error, store,
           stub, asks, inputs, sent, toolTurns, fsAtSend, execLog, request>>

vars == <<messages, files, dirs, pc, loop_guard, pending, turnCalls, reply, ret,
          error, store, stub, asks, inputs, sent, toolTurns, fsAtSend, execLog,
          request, agents, heap, RUN_MESSAGES, appended, writeLog, hostInputs,
          response>>

-----------------------------------------------------------------------------
(* Bounds of the model. *)

\* inputs the environment gives a session: an ask call counts one, a scripted
\* model service one more, each freely chosen model reply one
MaxInputs == 3

-----------------------------------------------------------------------------
(* Generic helpers. *)

Min(a, b) == IF a < b THEN a ELSE b

Last(s) == s[Len(s)]

Front(s) == SubSeq(s, 1, Len(s) - 1)

\* Body(e), with e evaluated once
Bind(e, Body(_)) == CHOOSE y \in {Body(x) : x \in {e}} : TRUE

IsPrefix(a, b) == Len(a) <= Len(b) /\ SubSeq(b, 1, Len(a)) = a

\* sub occurs in s as a run of consecutive tokens (Python: sub in s)
Contains(s, sub) ==
    \E i \in 1..(Len(s) - Len(sub) + 1) : SubSeq(s, i, i + Len(sub) - 1) = sub

\* str.replace(old, new) for a one-token old
ReplaceTok(s, old, new) == [i \in 1..Len(s) |-> IF s[i] = old THEN new ELSE s[i]]

-----------------------------------------------------------------------------
(* Tokens. *)

DQ == "\""
SQ == "'"
LF == "\n"
CR == "\r"
SP == " "
\* the fenced-code markers: three backquotes followed by json, and three backquotes
FenceJson == "[fence]json"
Fence == "[fence]"
Whitespace == {SP, LF, CR}

CdnCss == "https://cdn.jsdelivr.net/npm/bootstrap@5.3.2/dist/css/bootstrap.min.css"
CdnJs == "https://cdn.jsdelivr.net/npm/bootstrap@5.3.2/dist/js/bootstrap.bundle.min.js"
StaticCss == "static/bootstrap.min.css"
StaticJs == "static/bootstrap.bundle.min.js"

\* len(tok.encode("utf-8")) of the tokens contents are made of
TokBytes(tok) ==
    CASE tok = CdnCss -> 71
      [] tok = CdnJs -> 76
      [] tok = StaticCss -> 24
      [] tok = StaticJs -> 30
      [] tok = "<html>" -> 6
      [] tok = "</html>" -> 7
      [] tok = "body" -> 4
      [] OTHER -> 1

RECURSIVE Utf8Len(_)
Utf8Len(s) == IF s = <<>> THEN 0 ELSE TokBytes(Head(s)) + Utf8Len(Tail(s))

-----------------------------------------------------------------------------
(* pathlib. *)

\* tools.ROOT_DIR: the project root
ROOT_DIR == <<"srv", "locable">>

\* Path(s): "." and empty segments are dropped, ".." is kept
PurePath(s) ==
    [abs |-> (s # <<>> /\ s[1] = "/"),
     segs |-> SelectSeq(s, LAMBDA t : t \notin {"/", "."})]

\* p.parts
Parts(p) == IF p.abs THEN <<"/">> \o p.segs ELSE p.segs

\* a / b : an absolute right operand replaces the left one
JoinPath(a, b) == IF b.abs THEN b ELSE [abs |-> a.abs, segs |-> a.segs \o b.segs]

\* Path.resolve() of segments below "/": ".." drops the segment before it
RECURSIVE ResolveSegs(_, _)
ResolveSegs(acc, segs) ==
    IF segs = <<>> THEN acc
    ELSE IF Head(segs) = ".."
         THEN ResolveSegs(IF acc = <<>> THEN acc ELSE Front(acc), Tail(segs))
         ELSE ResolveSegs(Append(acc, Head(segs)), Tail(segs))

\* (ROOT_DIR / p).resolve(), an absolute path
ResolveUnderRoot(p) ==
    ResolveSegs(<<>>, JoinPath([abs |-> TRUE, segs |-> ROOT_DIR], p).segs)

Parent(path) == IF path = <<>> THEN path ELSE Front(path)

\* Path.suffix.lower() == ".html" of the final segment
HtmlNames == {"index.html", "about.html", "INDEX.HTML"}

IsHtml(path) == path # <<>> /\ Last(path) \in HtmlNames

\* str(path) of an absolute path, as tokens
PathStr(path) ==
    IF path = <<>> THEN <<"/">>
    ELSE [i \in 1..(2 * Len(path)) |-> IF i % 2 = 1 THEN "/" ELSE path[i \div 2]]

\* path lies in the tree below base (resolved.relative_to(base) succeeds)
Inside(path, base) == IsPrefix(base, path)

SiteDir == ROOT_DIR \o <<"site">>

-----------------------------------------------------------------------------
(* The filesystem. *)

Prefixes(path) == {SubSeq(path, 1, n) : n \in 0..Len(path)}

\* os.makedirs(d, exist_ok=True) and Path.mkdir(parents=True, exist_ok=True)
\* fail when d or one of its ancestors is a regular file
MkdirsFails(fl, d) == \E a \in Prefixes(d) : a \in DOMAIN fl

Mkdirs(ds, d) == ds \cup Prefixes(d)

\* Path.write_text fails when the target is a directory
WriteFails(ds, target) == target \in ds

\* a write that appends to the file it finds
WriteTextAppending(fl, target, text) ==
    [q \in (DOMAIN fl) \cup {target} |->
        IF q # target THEN fl[q]
        ELSE IF target \in DOMAIN fl THEN fl[target] \o text
        ELSE text]

WriteText(fl, target, text) ==
    [q \in (DOMAIN fl) \cup {target} |-> IF q = target THEN text ELSE fl[q]]

\* Path.read_text: text mode translates "\r\n" and "\r" to "\n"
RECURSIVE UniversalNewlines(_)
UniversalNewlines(s) ==
    IF s = <<>> THEN <<>>
    ELSE IF Head(s) = CR
         THEN IF Len(s) >= 2 /\ s[2] = LF
              THEN <<LF>> \o UniversalNewlines(Tail(Tail(s)))
              ELSE <<LF>> \o UniversalNewlines(Tail(s))
         ELSE <<Head(s)>> \o UniversalNewlines(Tail(s))

ReadText(fl, target) == UniversalNewlines(fl[target])

-----------------------------------------------------------------------------
(* Python values: None, str, dict, list and the JSON scalars.  A dict is   *)
(* the sequence of its items in insertion order; a list is the sequence of *)
(* its elements, each under the empty key.                                 *)

VNone == [t |-> "none", s |-> <<>>, kv |-> <<>>]

VStr(s) == [t |-> "str", s |-> s, kv |-> <<>>]

VLit(tok) == [t |-> "lit", s |-> <<tok>>, kv |-> <<>>]

VDict(kv) == [t |-> "dict", s |-> <<>>, kv |-> kv]

VList(items) == [t |-> "list", s |-> <<>>, kv |-> [i \in 1..Len(items) |-> [k |-> "", v |-> items[i]]]]

\* a one-token str
S(tok) == VStr(<<tok>>)

EmptyStr == VStr(<<>>)

EmptyDict == VDict(<<>>)

Item(k, v) == [k |-> k, v |-> v]

IsDict(v) == v.t = "dict"

IsList(v) == v.t = "list"

IsStr(v) == v.t = "str"

\* the elements of a list value
Elems(v) == [i \in 1..Len(v.kv) |-> v.kv[i].v]

\* bool(v)
Truthy(v) ==
    CASE v.t = "none" -> FALSE
      [] v.t = "str" -> v.s # <<>>
      [] v.t = "lit" -> v.s \notin {<<"false">>, <<"0">>}
      [] OTHER -> v.kv # <<>>

\* a or b
Or(a, b) == IF Truthy(a) THEN a ELSE b

\* key in d
HasKey(d, key) == \E i \in 1..Len(d.kv) : d.kv[i].k = key

\* d.get(key, default)
GetOr(d, key, default) ==
    IF HasKey(d, key)
    THEN d.kv[CHOOSE i \in 1..Len(d.kv) : d.kv[i].k = key].v
    ELSE default

\* d.get(key)
Get(d, key) == GetOr(d, key, VNone)

\* d[key] = v on the item sequence: an existing key keeps its place
DictSet(kv, key, v) ==
    IF \E i \in 1..Len(kv) : kv[i].k = key
    THEN [i \in 1..Len(kv) |-> IF kv[i].k = key THEN Item(key, v) ELSE kv[i]]
    ELSE Append(kv, Item(key, v))

\* repr(s) of a str: single quotes around it unless it holds one and no
\* double quote; line ends, backslashes and the delimiter are escaped
ReprStr(s) ==
    LET q == IF (\E i \in 1..Len(s) : s[i] = SQ) /\ ~(\E i \in 1..Len(s) : s[i] = DQ)
             THEN DQ ELSE SQ
    IN  <<q>> \o [i \in 1..Len(s) |->
                    CASE s[i] = LF -> "\\n"
                      [] s[i] = CR -> "\\r"
                      [] s[i] = "\\" -> "\\\\"
                      [] s[i] = q -> "\\'"
                      [] OTHER -> s[i]] \o <<q>>

\* repr(v): what str() gives for the elements of a list and the items of a dict
RECURSIVE Repr(_)
RECURSIVE ReprItems(_, _)
Repr(v) ==
    CASE v.t = "str" -> ReprStr(v.s)
      [] v.t = "lit" -> (CASE v.s = <<"true">> -> <<"True">>
                           [] v.s = <<"false">> -> <<"False">>
                           [] OTHER -> v.s)
      [] v.t = "none" -> <<"None">>
      [] v.t = "dict" -> <<"{">> \o ReprItems(v.kv, TRUE) \o <<"}">>
      [] OTHER -> <<"[">> \o ReprItems(v.kv, FALSE) \o <<"]">>

ReprItems(kv, keyed) ==
    IF kv = <<>> THEN <<>>
    ELSE (IF keyed THEN ReprStr(<<Head(kv).k>>) \o <<":", SP>> ELSE <<>>)
         \o Repr(Head(kv).v)
         \o (IF Len(kv) > 1 THEN <<",", SP>> ELSE <<>>)
         \o ReprItems(Tail(kv), keyed)

\* str(v) / f"{v}"
Str(v) ==
    CASE v.t = "str" -> v.s
      [] v.t = "none" -> <<"None">>
      [] OTHER -> Repr(v)

-----------------------------------------------------------------------------
(* json.loads on tokens: objects, arrays, double-quoted strings, null and  *)
(* the scalar literals.  A key is the text between its quotes; keys of the *)
(* model are one token long.                                               *)

JsonLiterals == {"true", "false", "0", "1", "42"}

ParseFail == [ok |-> FALSE, v |-> VNone, i |-> 0]

ParseOk(v, i) == [ok |-> TRUE, v |-> v, i |-> i]

RECURSIVE SkipWs(_, _)
SkipWs(t, i) == IF i <= Len(t) /\ t[i] \in Whitespace THEN SkipWs(t, i + 1) ELSE i

\* index of the quote closing a string whose text starts at i; 0 when the
\* string is not closed or holds a raw line break
RECURSIVE StringEnd(_, _)
StringEnd(t, i) ==
    IF i > Len(t) THEN 0
    ELSE IF t[i] = DQ THEN i
    ELSE IF t[i] \in {LF, CR} THEN 0
    ELSE StringEnd(t, i + 1)

\* a string starting at the quote t[i]
ParseString(t, i) ==
    LET j == StringEnd(t, i + 1)
    IN  IF j = 0 THEN ParseFail ELSE ParseOk(VStr(SubSeq(t, i + 1, j - 1)), j + 1)

KeyOf(strval) == IF Len(strval.s) = 1 THEN strval.s[1] ELSE ""

RECURSIVE ParseValue(_, _)
RECURSIVE ParseMembers(_, _, _)
RECURSIVE ParseElements(_, _, _)

ParseValue(t, i0) ==
    Bind(SkipWs(t, i0), LAMBDA i :
        IF i > Len(t) THEN ParseFail
        ELSE IF t[i] = DQ THEN ParseString(t, i)
        ELSE IF t[i] = "{"
             THEN Bind(SkipWs(t, i + 1), LAMBDA j :
                      IF j <= Len(t) /\ t[j] = "}"
                      THEN ParseOk(EmptyDict, j + 1)
                      ELSE ParseMembers(t, j, <<>>))
        ELSE IF t[i] = "["
             THEN Bind(SkipWs(t, i + 1), LAMBDA j :
                      IF j <= Len(t) /\ t[j] = "]"
                      THEN ParseOk(VList(<<>>), j + 1)
                      ELSE ParseElements(t, j, <<>>))
        ELSE IF t[i] = "null" THEN ParseOk(VNone, i + 1)
        ELSE IF t[i] \in JsonLiterals THEN ParseOk(VLit(t[i]), i + 1)
        ELSE ParseFail)

\* after a member or an element that ends before index e0: the closing
\* token, or a comma and the rest
AfterItem(t, e0, close, Done(_), More(_)) ==
    Bind(SkipWs(t, e0), LAMBDA e :
        IF e > Len(t) THEN ParseFail
        ELSE IF t[e] = close THEN Done(e + 1)
        ELSE IF t[e] = "," THEN More(SkipWs(t, e + 1))
        ELSE ParseFail)

\* the members of an object from the key at j on; acc holds the items so far
ParseMembers(t, j, acc) ==
    IF j > Len(t) \/ t[j] # DQ THEN ParseFail
    ELSE Bind(ParseString(t, j), LAMBDA key :
        IF ~key.ok THEN ParseFail
        ELSE Bind(SkipWs(t, key.i), LAMBDA c :
            IF c > Len(t) \/ t[c] # ":" THEN ParseFail
            ELSE Bind(ParseValue(t, c + 1), LAMBDA val :
                IF ~val.ok THEN ParseFail
                ELSE Bind(DictSet(acc, KeyOf(key.v), val.v), LAMBDA acc2 :
                    AfterItem(t, val.i, "}",
                              LAMBDA n : ParseOk(VDict(acc2), n),
                              LAMBDA n : ParseMembers(t, n, acc2))))))

\* the elements of an array from j on
ParseElements(t, j, acc) ==
    Bind(ParseValue(t, j), LAMBDA val :
        IF ~val.ok THEN ParseFail
        ELSE Bind(Append(acc, val.v), LAMBDA acc2 :
            AfterItem(t, val.i, "]",
                      LAMBDA n : ParseOk(VList(acc2), n),
                      LAMBDA n : ParseElements(t, n, acc2))))

\* json.loads(text): the whole text must be one value
JsonLoads(text) ==
    Bind(text, LAMBDA t :
        Bind(ParseValue(t, 1), LAMBDA r :
            IF r.ok /\ SkipWs(t, r.i) > Len(t) THEN r ELSE ParseFail))

\* json.dumps escapes of a str
JsonEscape(s) ==
    [i \in 1..Len(s) |->
        CASE s[i] = DQ -> "\\\""
          [] s[i] = LF -> "\\n"
          [] s[i] = CR -> "\\r"
          [] OTHER -> s[i]]

RECURSIVE JsonDumps(_)
RECURSIVE JsonDumpItems(_, _)

\* json.dumps(v)
JsonDumps(v) ==
    CASE v.t = "none" -> <<"null">>
      [] v.t = "str" -> <<DQ>> \o JsonEscape(v.s) \o <<DQ>>
      [] v.t = "lit" -> v.s
      [] v.t = "dict" -> <<"{">> \o JsonDumpItems(v.kv, TRUE) \o <<"}">>
      [] OTHER -> <<"[">> \o JsonDumpItems(v.kv, FALSE) \o <<"]">>

JsonDumpItems(kv, keyed) ==
    IF kv = <<>> THEN <<>>
    ELSE (IF keyed THEN <<DQ, Head(kv).k, DQ, ":", SP>> ELSE <<>>)
         \o JsonDumps(Head(kv).v)
         \o (IF Len(kv) > 1 THEN <<",", SP>> ELSE <<>>)
         \o JsonDumpItems(Tail(kv), keyed)

-----------------------------------------------------------------------------
(* agent/tools.py.  Code that may raise yields an effect: err names the    *)
(* exception ("" when the code returned), result is the returned value,    *)
(* files and dirs are the filesystem it leaves.                            *)

Effect(err, result, fl, ds) == [err |-> err, result |-> result, files |-> fl, dirs |-> ds]

\* _resolve_path(path): the resolved path, or the exception
ResolvePath(pathval) ==
    IF ~IsStr(pathval) THEN [err |-> "TypeError", path |-> <<>>]
    ELSE LET resolved == ResolveUnderRoot(PurePath(pathval.s))
         IN  IF Inside(resolved, ROOT_DIR)
             THEN [err |-> "", path |-> resolved]
             ELSE [err |-> "ValueError", path |-> resolved]

\* write_file(path, content)
ToolsWriteFile(fl, ds, pathval, content) ==
    LET r == ResolvePath(pathval)
    IN  IF r.err # "" THEN Effect(r.err, VNone, fl, ds)
        ELSE IF MkdirsFails(fl, Parent(r.path)) THEN Effect("OSError", VNone, fl, ds)
        ELSE LET ds2 == Mkdirs(ds, Parent(r.path))
                 text == IF content = VNone THEN <<>> ELSE Str(content)
             IN  IF WriteFails(ds2, r.path) THEN Effect("OSError", VNone, fl, ds2)
                 ELSE Effect("",
                             VStr(<<"Wrote ">> \o PathStr(r.path)
                                  \o <<" (", ToString(Utf8Len(text)), " bytes)">>),
                             WriteText(fl, r.path, text), ds2)

\* a read that raises for a missing file
ToolsReadFileRaising(fl, ds, pathval) ==
    LET r == ResolvePath(pathval)
    IN  IF r.err # "" THEN Effect(r.err, VNone, fl, ds)
        ELSE IF r.path \notin DOMAIN fl THEN Effect("FileNotFoundError", VNone, fl, ds)
        ELSE Effect("", VStr(ReadText(fl, r.path)), fl, ds)

\* read_file(path)
ToolsReadFile(fl, ds, pathval) ==
    LET r == ResolvePath(pathval)
    IN  IF r.err # "" THEN Effect(r.err, VNone, fl, ds)
        ELSE IF r.path \notin DOMAIN fl /\ r.path \notin ds
             THEN Effect("", VStr(<<"ERROR: file not found: ">> \o PathStr(r.path)), fl, ds)
        ELSE IF r.path \in ds THEN Effect("OSError", VNone, fl, ds)
        ELSE Effect("", VStr(ReadText(fl, r.path)), fl, ds)

\* str(rel) of a path relative to the root
RelStr(rel) ==
    [i \in 1..(2 * Len(rel) - 1) |-> IF i % 2 = 1 THEN rel[(i + 1) \div 2] ELSE "/"]

\* the elements of a finite set, in the order the directory walk yields them
\* (the walk's order is the operating system's; one order is fixed here)
RECURSIVE SeqOfSet(_)
SeqOfSet(set) ==
    IF set = {} THEN <<>>
    ELSE LET x == CHOOSE y \in set : TRUE IN <<x>> \o SeqOfSet(set \ {x})

\* a listing that gives the absolute path of each file it finds
ToolsListFilesAbsolute(fl, ds) ==
    LET r == ResolvePath(S("."))
    IN  IF r.path \notin ds THEN Effect("", VList(<<>>), fl, ds)
        ELSE LET found == SeqOfSet({q \in DOMAIN fl : Inside(q, r.path)})
             IN  Effect("", VList([i \in 1..Len(found) |-> VStr(PathStr(found[i]))]), fl, ds)

\* list_files(base="."): the regular files below the root, relative to it
ToolsListFiles(fl, ds) ==
    LET r == ResolvePath(S("."))
    IN  IF r.path \notin ds THEN Effect("", VList(<<>>), fl, ds)
        ELSE LET found == SeqOfSet({q \in DOMAIN fl : Inside(q, r.path)})
             IN  Effect("",
                        VList([i \in 1..Len(found) |->
                                 VStr(RelStr(SubSeq(found[i], Len(ROOT_DIR) + 1, Len(found[i]))))]),
                        fl, ds)

-----------------------------------------------------------------------------
(* BuilderAgent.execute_tool and BuilderAgent._exec_tool_call. *)

\* the path execute_tool hands to write_file: anchored under site, joined
\* to the root and resolved
AnchoredTarget(pathtext) ==
    LET p0 == PurePath(pathtext)
        p == IF Parts(p0) = <<>> \/ Parts(p0)[1] # "site"
             THEN JoinPath(PurePath(<<"site">>), p0)
             ELSE p0
    IN  ResolveUnderRoot(p)

\* the rewrite of the two CDN references
RewriteCdn(text) == ReplaceTok(ReplaceTok(text, CdnCss, StaticCss), CdnJs, StaticJs)

\* a write_file branch that does not look whether a path was given
ExecuteWriteUnchecked(fl, ds, args) ==
    IF ~IsDict(args) THEN Effect("AttributeError", VNone, fl, ds)
    ELSE LET path == Get(args, "path")
             content == GetOr(args, "content", EmptyStr)
         IN  IF ~IsStr(path) THEN Effect("TypeError", VNone, fl, ds)
             ELSE LET full == AnchoredTarget(path.s)
                  IN  IF MkdirsFails(fl, Parent(full)) THEN Effect("OSError", VNone, fl, ds)
                      ELSE LET ds2 == Mkdirs(ds, Parent(full))
                               c2 == IF IsHtml(full) /\ IsStr(content)
                                     THEN VStr(RewriteCdn(content.s))
                                     ELSE content
                           IN  ToolsWriteFile(fl, ds2, VStr(PathStr(full)), c2)

\* execute_tool, the write_file branch
ExecuteWrite(fl, ds, args) ==
    IF ~IsDict(args) THEN Effect("AttributeError", VNone, fl, ds)
    ELSE LET path == Get(args, "path")
             content == GetOr(args, "content", EmptyStr)
         IN  IF ~Truthy(path) THEN Effect("", S("ERROR: missing path"), fl, ds)
             ELSE IF ~IsStr(path) THEN Effect("TypeError", VNone, fl, ds)
             ELSE LET full == AnchoredTarget(path.s)
                  IN  IF MkdirsFails(fl, Parent(full)) THEN Effect("OSError", VNone, fl, ds)
                      ELSE LET ds2 == Mkdirs(ds, Parent(full))
                               c2 == IF IsHtml(full) /\ IsStr(content)
                                     THEN VStr(RewriteCdn(content.s))
                                     ELSE content
                           IN  ToolsWriteFile(fl, ds2, VStr(PathStr(full)), c2)

\* execute_tool, the read_file branch
ExecuteRead(fl, ds, args) ==
    IF ~IsDict(args) THEN Effect("AttributeError", VNone, fl, ds)
    ELSE ToolsReadFile(fl, ds, Get(args, "path"))

\* an execute_tool that runs the listing for every name it does not know
ExecuteToolDefaultListing(fl, ds, name, args) ==
    IF name = S("write_file") THEN ExecuteWrite(fl, ds, args)
    ELSE IF name = S("read_file") THEN ExecuteRead(fl, ds, args)
    ELSE ToolsListFiles(fl, ds)

\* execute_tool(name, args)
ExecuteTool(fl, ds, name, args) ==
    IF name = S("write_file") THEN ExecuteWrite(fl, ds, args)
    ELSE IF name = S("read_file") THEN ExecuteRead(fl, ds, args)
    ELSE IF name = S("list_files") THEN ToolsListFiles(fl, ds)
    ELSE Effect("", VStr(<<"Unknown tool: ">> \o Str(name)), fl, ds)

\* the tool name and the arguments _exec_tool_call takes from a call
CallFn(call) == Or(Get(call, "function"), EmptyDict)

CallName(call) == Or(Get(CallFn(call), "name"), Get(call, "name"))

CallArgs(call) ==
    LET raw_args == IF Truthy(CallFn(call))
                    THEN Get(CallFn(call), "arguments")
                    ELSE Get(call, "arguments")
    IN  IF IsDict(raw_args) THEN raw_args
        ELSE IF IsStr(raw_args) /\ JsonLoads(raw_args.s).ok THEN JsonLoads(raw_args.s).v
        ELSE EmptyDict

\* the tool_call_id of the tool message of a call
CallId(call) == GetOr(call, "id", VStr(<<"tool_">> \o Str(CallName(call))))

ToolMessage(call, result) ==
    VDict(<<Item("role", S("tool")),
            Item("tool_call_id", CallId(call)),
            Item("name", CallName(call)),
            Item("content", VStr(JsonDumps(VDict(<<Item("result", result)>>))))>>)

\* an execution that keeps its result out of the conversation
ExecToolCallSilent(msgs, fl, ds, call) ==
    IF ~IsDict(call) \/ ~IsDict(CallFn(call))
    THEN [eff |-> Effect("AttributeError", VNone, fl, ds), messages |-> msgs]
    ELSE [eff |-> ExecuteTool(fl, ds, CallName(call), CallArgs(call)), messages |-> msgs]

\* _exec_tool_call(call): the effect of the execution and the conversation
\* it leaves
ExecToolCall(msgs, fl, ds, call) ==
    IF ~IsDict(call) \/ ~IsDict(CallFn(call))
    THEN [eff |-> Effect("AttributeError", VNone, fl, ds), messages |-> msgs]
    ELSE LET e == ExecuteTool(fl, ds, CallName(call), CallArgs(call))
         IN  [eff |-> e,
              messages |-> IF e.err = "" THEN Append(msgs, ToolMessage(call, e.result))
                           ELSE msgs]

-----------------------------------------------------------------------------
(* BuilderAgent._execute_json_tool_calls: the calls embedded in the text. *)

\* text.split(sep) for a one-token separator
RECURSIVE SplitOn(_, _)
SplitOn(text, sep) ==
    IF \E i \in 1..Len(text) : text[i] = sep
    THEN LET i == CHOOSE j \in 1..Len(text) :
                      text[j] = sep /\ \A h \in 1..(j - 1) : text[h] # sep
         IN  <<SubSeq(text, 1, i - 1)>> \o SplitOn(SubSeq(text, i + 1, Len(text)), sep)
    ELSE <<text>>

\* text.strip()
RECURSIVE Strip(_)
Strip(text) ==
    IF text = <<>> THEN text
    ELSE IF Head(text) \in Whitespace THEN Strip(Tail(text))
    ELSE IF Last(text) \in Whitespace THEN Strip(Front(text))
    ELSE text

\* the text of a block up to its closing fence, or all of it
JsonContent(block) == Strip(SplitOn(block, Fence)[1])

\* strict decoding first, then one pass rewriting single quotes
ParseFragment(json_content) ==
    Bind(JsonLoads(json_content), LAMBDA strict :
        IF strict.ok THEN strict ELSE JsonLoads(ReplaceTok(json_content, SQ, DQ)))

\* the decoded fragment is a call: a mapping with a name key
IsCallDict(parsed) == parsed.ok /\ IsDict(parsed.v) /\ HasKey(parsed.v, "name")

\* the call the block yields, as a list of one, or the empty list
FragmentCalls(block) ==
    Bind(JsonContent(block), LAMBDA json_content :
        IF json_content = <<>> \/ ~Contains(json_content, <<DQ, "name", DQ>>) THEN <<>>
        ELSE Bind(ParseFragment(json_content), LAMBDA parsed :
                 IF IsCallDict(parsed) THEN <<parsed.v>> ELSE <<>>))

RECURSIVE BlocksCalls(_)
BlocksCalls(blocks) ==
    IF blocks = <<>> THEN <<>>
    ELSE FragmentCalls(Head(blocks)) \o BlocksCalls(Tail(blocks))

\* the calls _execute_json_tool_calls executes, in order
EmbeddedCalls(assistant_text) ==
    Bind(Tail(SplitOn(assistant_text, FenceJson)), LAMBDA blocks : BlocksCalls(blocks))

-----------------------------------------------------------------------------
(* BuilderAgent._append_retrieval_context.  The retrieval capability is    *)
(* the environment: st gives, for each of its three calls, whether the     *)
(* call raises and otherwise the value it returns.  Retrieved texts are    *)
(* made of one-character tokens.                                           *)

\* self.retrieval_tag
RetrievalTag == S("retrieval")

\* k of the call in ask
RetrievalK == 20

\* the budget of a style sample and of a content chunk, in characters
CssBudget == 420

ChunkBudget == 600

\* seq[:n]
Take(seq, n) == SubSeq(seq, 1, Min(Len(seq), n))

\* f"{dist_val:.3f}" for a number, "n/a" otherwise
DistText(v) ==
    IF v.t # "lit" THEN "n/a"
    ELSE CASE v.s[1] = "0.25" -> "0.250"
           [] v.s[1] \in {"1", "true"} -> "1.000"
           [] v.s[1] \in {"0", "false"} -> "0.000"
           [] OTHER -> v.s[1]

\* the line of a template hit
TemplateLine(hit) ==
    Str(Get(hit, "template")) \o <<": ">> \o Str(Get(hit, "description"))
    \o <<" (dist=", DistText(Get(hit, "distance")), ")">>

\* the line of the i-th style sample
CssLine(chunk, i) ==
    <<"[CSS ", ToString(i), "] ">>
    \o ReplaceTok(Take(Or(Get(chunk, "text"), EmptyStr).s, CssBudget), LF, SP)

\* the first result set of a field of the search result
FirstSet(hits, field) ==
    LET sets == Or(Get(hits, field), VList(<<VList(<<>>)>>))
    IN  Elems(sets)[1]

\* the line of the i-th content chunk
ChunkLine(doc, meta0, i) ==
    LET meta == Or(meta0, EmptyDict)
        label == Or(Or(Get(meta, "template"), Get(meta, "source")), EmptyStr)
    IN  <<"[", ToString(i), "] ">> \o Str(label) \o <<" :: ">> \o Take(doc.s, ChunkBudget)

\* what the three calls give the injector
TemplateHits(st) == IF st.templates.raises THEN VList(<<>>) ELSE st.templates.value

CssChunks(st) == IF st.css.raises THEN VList(<<>>) ELSE st.css.value

SearchHits(st) == IF st.search.raises THEN VNone ELSE st.search.value

\* the template section and the style samples of the best match
TemplateParts(st) ==
    LET hits == Elems(TemplateHits(st))
        top_template == Get(hits[1], "template")
        css == Elems(CssChunks(st))
    IN  IF hits = <<>> THEN <<>>
        ELSE <<<<"--- Template suggestions (by description distance) ---">>>>
             \o [i \in 1..Len(hits) |-> TemplateLine(hits[i])]
             \o (IF Truthy(top_template) /\ css # <<>>
                 THEN <<<<"CSS samples from ">> \o Str(top_template) \o <<" (trimmed):">>>>
                      \o [i \in 1..Len(css) |-> CssLine(css[i], i)]
                 ELSE <<>>)

\* the content-chunk section
ChunkParts(st, k) ==
    LET hits == SearchHits(st)
        docs == Take(Elems(FirstSet(hits, "documents")), k)
        metas == Elems(FirstSet(hits, "metadatas"))
    IN  IF ~Truthy(hits) \/ docs = <<>> THEN <<>>
        ELSE <<<<"--- Retrieved component chunks ---">>>>
             \o [i \in 1..Len(docs) |-> ChunkLine(docs[i], metas[i], i)]

\* the exception the injector lets through, "" when none: a hit or a chunk
\* that is no mapping, a search result of another shape, or fewer metadata
\* entries than documents
RetrievalError(st, k) ==
    LET hits == Elems(TemplateHits(st))
        css == Elems(CssChunks(st))
        found == SearchHits(st)
    IN  IF \E i \in 1..Len(hits) : ~IsDict(hits[i]) THEN "AttributeError"
        ELSE IF /\ hits # <<>>
                /\ Truthy(Get(hits[1], "template"))
                /\ \E i \in 1..Len(css) :
                       ~IsDict(css[i]) \/ ~IsStr(Or(Get(css[i], "text"), EmptyStr))
             THEN "AttributeError"
        ELSE IF ~Truthy(found) THEN ""
        ELSE IF ~IsDict(found) THEN "AttributeError"
        ELSE IF ~IsList(FirstSet(found, "documents")) THEN "TypeError"
        ELSE LET docs == Take(Elems(FirstSet(found, "documents")), k)
                 metas == FirstSet(found, "metadatas")
             IN  IF docs = <<>> THEN ""
                 ELSE IF ~IsList(metas) THEN "TypeError"
                 ELSE IF Len(Elems(metas)) < Len(docs) THEN "IndexError"
                 ELSE IF \E i \in 1..Len(docs) :
                            \/ ~IsStr(docs[i])
                            \/ Elems(metas)[i].t \notin {"none", "dict"}
                      THEN "TypeError"
                 ELSE ""

\* "\n\n".join(parts) + "\n"
RECURSIVE JoinParts(_)
JoinParts(parts) ==
    IF parts = <<>> THEN <<LF>>
    ELSE Head(parts) \o (IF Len(parts) > 1 THEN <<LF, LF>> ELSE <<>>) \o JoinParts(Tail(parts))

\* a context message that carries no tag
RetrievalMessageUntagged(snippet) ==
    VDict(<<Item("role", S("system")), Item("content", VStr(snippet))>>)

RetrievalMessage(snippet) ==
    VDict(<<Item("role", S("system")), Item("name", RetrievalTag), Item("content", VStr(snippet))>>)

IsRetrieval(m) == Get(m, "name") = RetrievalTag

\* an injector that appends its message even when it has found nothing
AppendRetrievalContextAlways(msgs, st, k) ==
    LET err == RetrievalError(st, k)
        parts == TemplateParts(st) \o ChunkParts(st, k)
    IN  IF err # "" THEN [err |-> err, messages |-> msgs]
        ELSE [err |-> "",
              messages |-> Append(SelectSeq(msgs, LAMBDA m : ~IsRetrieval(m)),
                                  RetrievalMessage(JoinParts(parts)))]

\* _append_retrieval_context(user_input, k): the exception raised ("" when
\* none) and the conversation it leaves
AppendRetrievalContext(msgs, st, k) ==
    LET err == RetrievalError(st, k)
        parts == TemplateParts(st) \o ChunkParts(st, k)
    IN  IF err # "" THEN [err |-> err, messages |-> msgs]
        ELSE IF parts = <<>> THEN [err |-> "", messages |-> msgs]
        ELSE [err |-> "",
              messages |-> Append(SelectSeq(msgs, LAMBDA m : ~IsRetrieval(m)),
                                  RetrievalMessage(JoinParts(parts)))]

-----------------------------------------------------------------------------
(* BuilderAgent.ask: what it does with one model reply. *)

\* the bound of the loop guard
LoopGuardMax == 12

\* the stalled-out result
Stalled == S("Stopped after max iterations.")

\* load_system_prompt()
SystemPrompt == S("You are a website builder agent.")

SystemMessage == VDict(<<Item("role", S("system")), Item("content", SystemPrompt)>>)

UserMessage(user_input) == VDict(<<Item("role", S("user")), Item("content", user_input)>>)

\* resp.get("message", {})
ReplyMessage(resp) == GetOr(resp, "message", EmptyDict)

\* assistant = resp.get("message", {}) or {}
ReplyAssistant(resp) == Or(ReplyMessage(resp), EmptyDict)

\* content = assistant.get("content", "") or ""
ReplyContent(resp) == Or(GetOr(ReplyAssistant(resp), "content", EmptyStr), EmptyStr)

\* the structured tool calls: top level first, then under the message
ReplyToolCalls(resp) ==
    Or(Or(Get(resp, "tool_calls"), Get(ReplyAssistant(resp), "tool_calls")),
       Get(ReplyMessage(resp), "tool_calls"))

\* the exception raised while the reply is taken apart, "" when none
ReplyError(resp) ==
    IF ~IsDict(ReplyAssistant(resp)) THEN "AttributeError"
    ELSE IF /\ ~Truthy(Get(resp, "tool_calls"))
            /\ ~Truthy(Get(ReplyAssistant(resp), "tool_calls"))
            /\ ~IsDict(ReplyMessage(resp))
         THEN "AttributeError"
    ELSE IF /\ ~Truthy(ReplyToolCalls(resp))
            /\ Truthy(ReplyContent(resp))
            /\ ~IsStr(ReplyContent(resp))
         THEN "AttributeError"
    ELSE ""

\* calls: a lone dict is wrapped, a list is taken as it is
NormalizeCalls(tool_calls) ==
    IF IsDict(tool_calls) THEN <<tool_calls>>
    ELSE IF IsList(tool_calls) THEN Elems(tool_calls)
    ELSE <<>>

\* the assistant message persisted on the structured path
AssistantCallMessage(resp) ==
    VDict(<<Item("role", GetOr(ReplyAssistant(resp), "role", S("assistant"))),
            Item("content", ReplyContent(resp)),
            Item("tool_calls", VList(NormalizeCalls(ReplyToolCalls(resp))))>>)

\* a final message whose content has the surrounding whitespace removed
FinalMessageTrimmed(resp) ==
    VDict(<<Item("role", GetOr(ReplyAssistant(resp), "role", S("assistant"))),
            Item("content", VStr(Strip(ReplyContent(resp).s)))>>)

\* the assistant message persisted with the final answer
FinalMessage(resp) ==
    VDict(<<Item("role", GetOr(ReplyAssistant(resp), "role", S("assistant"))),
            Item("content", ReplyContent(resp))>>)

\* an answer with the surrounding whitespace removed
FinalAnswerStripped(resp) == VStr(Strip(ReplyContent(resp).s))

\* what ask returns for a reply without tool calls
FinalAnswer(resp) == ReplyContent(resp)

\* the calls the embedded-text path takes from the reply
ReplyEmbeddedCalls(resp) ==
    IF Truthy(ReplyContent(resp)) THEN EmbeddedCalls(ReplyContent(resp).s) ELSE <<>>

\* the calls of a turn that takes the structured and the embedded ones
TurnCallsBoth(resp) == NormalizeCalls(ReplyToolCalls(resp)) \o ReplyEmbeddedCalls(resp)

\* the calls of the turn, whichever path finds them
TurnCalls(resp) ==
    IF Truthy(ReplyToolCalls(resp)) THEN NormalizeCalls(ReplyToolCalls(resp))
    ELSE ReplyEmbeddedCalls(resp)

-----------------------------------------------------------------------------
(* The environment: user requests, model replies, retrieval behaviours. *)

UserInputs == {S("create a one-page site")}

\* path arguments
PIndex == <<"index.html">>
PSiteIndex == <<"site", "/", "index.html">>
PSiteUp == <<"site", "/", "..", "/", "x.txt">>
PEscape == <<"..", "/", "..", "/", "evil", "/", "x.txt">>
PAbsolute == <<"/", "tmp", "/", "out", "/", "x.txt">>
PReadUp == <<"..", "/", "x.txt">>
PNotes == <<"site", "/", "notes.txt">>

\* content arguments
CHtml == <<"<html>", "</html>">>
CCdn == <<"<html>", CdnCss, CdnJs, "</html>">>
CCrLf == <<"a", CR, LF, "b">>

WriteArgs(p, c) == VDict(<<Item("path", VStr(p)), Item("content", VStr(c))>>)

ReadArgs(p) == VDict(<<Item("path", VStr(p))>>)

\* a call in the nested-function shape, with an id
FnCall(id, name, args) ==
    VDict(<<Item("id", S(id)),
            Item("function", VDict(<<Item("name", S(name)), Item("arguments", args)>>))>>)

\* a call in the flat shape of an embedded fragment
FlatCall(name, args) == VDict(<<Item("name", S(name)), Item("arguments", args)>>)

\* a call in the nested-function shape whose function has no arguments
NoArgsCall(id, name) ==
    VDict(<<Item("id", S(id)), Item("function", VDict(<<Item("name", S(name))>>))>>)

\* an arguments string that is no JSON
BadArgs == VStr(<<"{", "oops">>)

\* a reply whose message carries tool_calls
CallReply(tool_calls) ==
    VDict(<<Item("message", VDict(<<Item("role", S("assistant")),
                                   Item("content", EmptyStr),
                                   Item("tool_calls", tool_calls)>>))>>)

\* a reply whose message carries text alone
TextReply(text) ==
    VDict(<<Item("message", VDict(<<Item("role", S("assistant")),
                                   Item("content", VStr(text))>>))>>)

OneCall(call) == CallReply(VList(<<call>>))

ReplyWriteIndex == OneCall(FnCall("call_1", "write_file", WriteArgs(PIndex, CHtml)))
ReplyWriteCdn == OneCall(FnCall("call_2", "write_file", WriteArgs(PSiteIndex, CCdn)))
ReplyWriteSiteUp == OneCall(FnCall("call_3", "write_file", WriteArgs(PSiteUp, CCrLf)))
ReplyWriteEscape == OneCall(FnCall("call_4", "write_file", WriteArgs(PEscape, CHtml)))
ReplyWriteAbsolute == OneCall(FnCall("call_5", "write_file", WriteArgs(PAbsolute, CHtml)))
ReplyReadSiteIndex == OneCall(FnCall("call_6", "read_file", ReadArgs(PSiteIndex)))
ReplyReadIndex == OneCall(FnCall("call_7", "read_file", ReadArgs(PIndex)))
ReplyReadUp == OneCall(FnCall("call_8", "read_file", ReadArgs(PReadUp)))
ReplyReadSiteUp == OneCall(FnCall("call_9", "read_file", ReadArgs(PSiteUp)))

\* a write of the page whose content is a list holding the text
ReplyWriteListContent ==
    OneCall(FnCall("call_22", "write_file",
                   VDict(<<Item("path", VStr(PIndex)),
                           Item("content", VList(<<VStr(CCdn)>>))>>)))

\* two writes in one turn, one with no path and one with the empty path
ReplyWriteNoPath ==
    CallReply(VList(<<FnCall("call_23", "write_file", VDict(<<Item("content", VStr(CHtml))>>)),
                      FnCall("call_24", "write_file", WriteArgs(<<>>, CHtml))>>))

\* tool_calls is a single dict
ReplySingleDict == CallReply(FnCall("call_10", "list_files", EmptyDict))

\* tool_calls is a list of two calls
ReplyListTwo ==
    CallReply(VList(<<FnCall("call_11", "write_file", WriteArgs(PSiteIndex, CHtml)),
                      FnCall("call_12", "read_file", ReadArgs(PSiteIndex))>>))

\* a write and a read of the same text file in one turn
ReplyNotesTwo ==
    CallReply(VList(<<FnCall("call_13", "write_file", WriteArgs(PNotes, CCrLf)),
                      FnCall("call_14", "read_file", ReadArgs(PNotes))>>))

\* free text with two fenced blocks: valid JSON, closed; then the same kind
\* of object in single quotes, with no closing fence
ReplyTwoFenced ==
    TextReply(<<"First:", LF, FenceJson, LF>>
              \o JsonDumps(FlatCall("list_files", EmptyDict))
              \o <<LF, Fence, LF, "then:", LF, FenceJson, LF>>
              \o ReplaceTok(JsonDumps(FlatCall("read_file", ReadArgs(PSiteIndex))), DQ, SQ))

\* free text whose only fenced block is in single quotes
ReplyQuotedOnly ==
    TextReply(<<"Run:", LF, FenceJson, LF>>
              \o ReplaceTok(JsonDumps(FlatCall("list_files", EmptyDict)), DQ, SQ)
              \o <<LF, Fence, LF>>)

\* free text whose only fenced block stops in the middle of the object
ReplyBrokenFragment ==
    TextReply(<<"Run:", LF, FenceJson, LF, "{", DQ, "name", DQ, ":", SP,
                DQ, "list_files", DQ, LF, Fence, LF>>)

\* free text with five fenced blocks: an empty one, one that stops in the
\* middle of the object, a list, a mapping whose name key is not at the top,
\* and a valid call
ReplyMixedFragments ==
    TextReply(<<"a", LF, FenceJson, LF, Fence, LF,
                "b", LF, FenceJson, LF, "{", DQ, "name", DQ, ":", SP,
                DQ, "list_files", DQ, LF, Fence, LF,
                "c", LF, FenceJson, LF>>
              \o JsonDumps(VList(<<S("name")>>))
              \o <<LF, Fence, LF, "d", LF, FenceJson, LF>>
              \o JsonDumps(VDict(<<Item("tool", VDict(<<Item("name", S("x"))>>))>>))
              \o <<LF, Fence, LF, "e", LF, FenceJson, LF>>
              \o JsonDumps(FlatCall("list_files", EmptyDict))
              \o <<LF, Fence, LF>>)

\* free text with three fenced blocks, each a call in valid JSON with no id:
\* a write of a text file, a write of a page, and, with no closing fence, a
\* read of a path above the root
ReplyEmbeddedThree ==
    TextReply(<<"Plan:", LF, FenceJson, LF>>
              \o JsonDumps(FlatCall("write_file", WriteArgs(PNotes, CCdn)))
              \o <<LF, Fence, LF, "then:", LF, FenceJson, LF>>
              \o JsonDumps(FlatCall("write_file", WriteArgs(PIndex, CHtml)))
              \o <<LF, Fence, LF, "and:", LF, FenceJson, LF>>
              \o JsonDumps(FlatCall("read_file", ReadArgs(PReadUp)))
              \o <<LF>>)

\* a read_file call whose arguments string is no JSON
ReplyReadBadArgs == OneCall(FnCall("call_15", "read_file", BadArgs))

\* a write_file call whose arguments string is no JSON, and a list_files
\* call with no arguments at all
ReplyArgsTwo ==
    CallReply(VList(<<FnCall("call_16", "write_file", BadArgs),
                      NoArgsCall("call_17", "list_files")>>))

\* a structured call, and a text that holds an embedded call
ReplyBoth ==
    VDict(<<Item("message",
                 VDict(<<Item("role", S("assistant")),
                         Item("content",
                              VStr(<<"Run:", LF, FenceJson, LF>>
                                   \o JsonDumps(FlatCall("write_file", WriteArgs(PNotes, CHtml)))
                                   \o <<LF, Fence, LF>>)),
                         Item("tool_calls",
                              VList(<<FnCall("call_18", "list_files", EmptyDict)>>))>>))>>)

\* a call of a tool named as the retrieval tag is named
ReplyCallTagged == OneCall(FnCall("call_19", "retrieval", EmptyDict))

\* plain text
ReplyFinal == TextReply(<<"Your site is ready.", LF>>)

FreeReplies ==
    {ReplyWriteIndex, ReplyWriteCdn, ReplyWriteSiteUp, ReplyWriteEscape,
     ReplyWriteAbsolute, ReplyReadSiteIndex, ReplyReadIndex, ReplyReadUp,
     ReplyReadSiteUp, ReplySingleDict, ReplyListTwo, ReplyNotesTwo, ReplyTwoFenced,
     ReplyQuotedOnly, ReplyBrokenFragment, ReplyReadBadArgs, ReplyArgsTwo, ReplyBoth,
     ReplyCallTagged, ReplyMixedFragments, ReplyEmbeddedThree,
     ReplyWriteListContent, ReplyWriteNoPath, ReplyFinal}

\* the model service of one ask: it answers freely, or it answers every
\* request with the same tool call (and on the last round may end the ask,
\* or ask for a file above the root)
FreeStub == [kind |-> "free", reply |-> VNone]

ScriptStub(r) == [kind |-> "script", reply |-> r]

StubCost(sb) == IF sb.kind = "script" THEN 1 ELSE 0

Stubs ==
    {FreeStub, ScriptStub(ReplySingleDict), ScriptStub(ReplyWriteIndex),
     ScriptStub(ReplyCallTagged)}

\* the retrieval capability of one ask
Raises == [raises |-> TRUE, value |-> VNone]

Returns(v) == [raises |-> FALSE, value |-> v]

StoreDown == [templates |-> Raises, css |-> Raises, search |-> Raises]

StoreEmpty ==
    [templates |-> Returns(VList(<<>>)), css |-> Returns(VList(<<>>)),
     search |-> Returns(VDict(<<Item("documents", VList(<<VList(<<>>)>>)),
                               Item("metadatas", VList(<<VList(<<>>)>>))>>))]

StoreFull ==
    [templates |-> Returns(VList(<<VDict(<<Item("template", S("agency")),
                                          Item("description", S("landing page")),
                                          Item("distance", VLit("0.25"))>>)>>)),
     css |-> Returns(VList(<<VDict(<<Item("text", VStr(<<"a", LF, "b">>)),
                                    Item("metadata", EmptyDict)>>)>>)),
     search |-> Returns(VDict(<<Item("documents", VList(<<VList(<<VStr(<<"n", "a", "v">>)>>)>>)),
                               Item("metadatas",
                                    VList(<<VList(<<VDict(<<Item("template", S("agency"))>>)>>)>>))>>))]

\* a text of n characters
Chars(n) == [i \in 1..n |-> "c"]

\* a capability that returns more than it was asked for, and longer texts
\* than the budgets: 4 template hits for k=3, 4 style samples for limit=3
\* (the second one character over the budget), k+1 documents (the first one
\* character over the budget)
StoreOversized ==
    [templates |-> Returns(VList([i \in 1..4 |->
                       VDict(<<Item("template", S("agency")),
                               Item("description", S("landing page")),
                               Item("distance", VLit("0.25"))>>)])),
     css |-> Returns(VList([i \in 1..4 |->
                 VDict(<<Item("text", VStr(Chars(IF i = 2 THEN CssBudget + 1 ELSE 2))),
                         Item("metadata", EmptyDict)>>)])),
     search |-> Returns(VDict(<<Item("documents",
                                     VList(<<VList([i \in 1..(RetrievalK + 1) |->
                                         VStr(Chars(IF i = 1 THEN ChunkBudget + 1 ELSE 2))])>>)),
                                Item("metadatas",
                                     VList(<<VList([i \in 1..(RetrievalK + 1) |-> VNone])>>))>>))]

\* a capability whose search result has documents and no metadatas
StoreNoMetas ==
    [templates |-> Returns(VList(<<>>)), css |-> Returns(VList(<<>>)),
     search |-> Returns(VDict(<<Item("documents", VList(<<VList(<<VStr(<<"n", "a", "v">>)>>)>>))>>))]

\* a capability whose search result has two documents and one metadata entry
StoreShortMetas ==
    [templates |-> Returns(VList(<<>>)), css |-> Returns(VList(<<>>)),
     search |-> Returns(VDict(<<Item("documents",
                                     VList(<<VList(<<VStr(<<"n", "a", "v">>), VStr(<<"h", "e", "r", "o">>)>>)>>)),
                                Item("metadatas",
                                     VList(<<VList(<<VDict(<<Item("template", S("agency"))>>)>>)>>))>>))]

\* a capability that finds a template and nothing else
StoreTemplateOnly ==
    [templates |-> Returns(VList(<<VDict(<<Item("template", S("agency")),
                                          Item("description", S("landing page")),
                                          Item("distance", VNone)>>)>>)),
     css |-> Raises,
     search |-> Returns(VDict(<<Item("documents", VList(<<VList(<<>>)>>)),
                               Item("metadatas", VList(<<VList(<<>>)>>))>>))]

Stores ==
    {StoreDown, StoreEmpty, StoreFull, StoreOversized, StoreNoMetas, StoreShortMetas,
     StoreTemplateOnly}

-----------------------------------------------------------------------------
(* The session. *)

NoFiles == [q \in {<<"srv", "locable", "agent", "tools.json">>} |-> <<"[", "]">>]

\* self.tools = load_tools(), read once when the agent is made
ToolSchema == JsonLoads(NoFiles[<<"srv", "locable", "agent", "tools.json">>]).v

\* no request has been sent yet
NoRequest == [messages |-> <<>>, tools |-> VNone]

\* a request that carries the last message alone
RequestPayloadLastOnly(msgs) == [messages |-> <<Last(msgs)>>, tools |-> ToolSchema]

\* client.send(self.messages, tools=self.tools): what the request carries
RequestPayload(msgs) == [messages |-> msgs, tools |-> ToolSchema]

\* the run ids of the requests the hosting layer serves at the same time
RunIds == {"run_a", "run_b"}

\* no BuilderAgent has been made for the run id
NoAgent ==
    [pc |-> "new", messages |-> "", loop_guard |-> 0, pending |-> <<>>,
     ret |-> VNone, error |-> "", handle |-> <<>>]

\* GET /files/{path} has not been asked
NoResponse == [path |-> <<>>, status |-> 0, body |-> <<>>, target |-> <<>>]

Init ==
    /\ messages = <<SystemMessage>>
    /\ files = NoFiles
    /\ dirs = Prefixes(<<"srv", "locable", "agent">>)
    /\ pc = "idle"
    /\ loop_guard = 0
    /\ pending = <<>>
    /\ turnCalls = <<>>
    /\ reply = VNone
    /\ ret = VNone
    /\ error = ""
    /\ store = StoreDown
    /\ stub = FreeStub
    /\ asks = 0
    /\ inputs = 0
    /\ sent = 0
    /\ toolTurns = 0
    /\ fsAtSend = [files |-> NoFiles, dirs |-> Prefixes(<<"srv", "locable", "agent">>)]
    /\ execLog = <<>>
    /\ request = NoRequest
    /\ agents = [r \in RunIds |-> NoAgent]
    /\ heap = [r \in RunIds |-> <<>>]
    /\ RUN_MESSAGES = [r \in {} |-> <<>>]
    /\ appended = [r \in RunIds |-> <<>>]
    /\ writeLog = <<>>
    /\ hostInputs = 0
    /\ response = NoResponse

\* ask(user_input) up to the loop: the user message, then the retrieval context
AskStart(user_input, st, sb) ==
    /\ pc \in {"idle", "done"}
    /\ inputs + StubCost(sb) < MaxInputs
    /\ inputs' = inputs + StubCost(sb) + 1
    /\ LET r == AppendRetrievalContext(Append(messages, UserMessage(user_input)), st, RetrievalK)
       IN  /\ messages' = r.messages
           /\ pc' = IF r.err = "" THEN "loop" ELSE "raised"
           /\ error' = r.err
    /\ loop_guard' = 0
    /\ sent' = 0
    /\ toolTurns' = 0
    /\ store' = st
    /\ stub' = sb
    /\ asks' = asks + 1
    /\ reply' = VNone
    /\ ret' = VNone
    /\ pending' = <<>>
    /\ turnCalls' = <<>>
    /\ UNCHANGED <<files, dirs, fsAtSend, execLog, request>>
    /\ UNCHANGED hvars

\* a stall-out that undoes what the tool calls of the session have written
StallOutRollingBack ==
    /\ pc = "loop"
    /\ loop_guard + 1 > LoopGuardMax
    /\ loop_guard' = loop_guard + 1
    /\ ret' = Stalled
    /\ pc' = "done"
    /\ files' = NoFiles
    /\ dirs' = Prefixes(<<"srv", "locable", "agent">>)
    /\ UNCHANGED <<messages, pending, turnCalls, reply, error, store,
                   stub, asks, inputs, sent, toolTurns, fsAtSend, execLog, request>>
    /\ UNCHANGED hvars

\* the loop guard trips: ask returns the stalled-out result
StallOut ==
    /\ pc = "loop"
    /\ loop_guard + 1 > LoopGuardMax
    /\ loop_guard' = loop_guard + 1
    /\ ret' = Stalled
    /\ pc' = "done"
    /\ UNCHANGED <<messages, files, dirs, pending, turnCalls, reply, error, store,
                   stub, asks, inputs, sent, toolTurns, fsAtSend, execLog, request>>
    /\ UNCHANGED hvars

\* a failed request after which the loop goes on to send again
ModelFailsRetried ==
    /\ pc = "loop"
    /\ loop_guard + 1 <= LoopGuardMax
    /\ stub.kind = "free"
    /\ loop_guard' = loop_guard + 1
    /\ sent' = sent + 1
    /\ pc' = "loop"
    /\ error' = "HTTPError"
    /\ request' = RequestPayload(messages)
    /\ UNCHANGED <<messages, files, dirs, pending, turnCalls, reply, ret, store,
                   stub, asks, inputs, toolTurns, fsAtSend, execLog>>
    /\ UNCHANGED hvars

\* client.send raises: the error leaves ask
ModelFails ==
    /\ pc = "loop"
    /\ loop_guard + 1 <= LoopGuardMax
    /\ stub.kind = "free"
    /\ loop_guard' = loop_guard + 1
    /\ sent' = sent + 1
    /\ pc' = "raised"
    /\ error' = "HTTPError"
    /\ request' = RequestPayload(messages)
    /\ UNCHANGED <<messages, files, dirs, pending, turnCalls, reply, ret, store,
                   stub, asks, inputs, toolTurns, fsAtSend, execLog>>
    /\ UNCHANGED hvars

\* the replies the model service may give to the next request
AllowedReplies ==
    IF stub.kind = "script"
    THEN {stub.reply}
         \cup (IF loop_guard + 1 = LoopGuardMax THEN {ReplyFinal, ReplyReadUp} ELSE {})
    ELSE IF inputs < MaxInputs THEN FreeReplies
    ELSE {ReplyFinal}

\* one round trip: the request is sent, the reply resp is taken apart
ModelReplies(resp) ==
    /\ pc = "loop"
    /\ loop_guard + 1 <= LoopGuardMax
    /\ resp \in AllowedReplies
    /\ loop_guard' = loop_guard + 1
    /\ sent' = sent + 1
    /\ reply' = resp
    /\ fsAtSend' = [files |-> files, dirs |-> dirs]
    /\ inputs' = IF stub.kind = "free" /\ inputs < MaxInputs THEN inputs + 1 ELSE inputs
    /\ IF ReplyError(resp) # ""
       THEN /\ pc' = "raised"
            /\ error' = ReplyError(resp)
            /\ UNCHANGED <<messages, pending, turnCalls, ret, toolTurns>>
       ELSE IF Truthy(ReplyToolCalls(resp))
       THEN /\ messages' = Append(messages, AssistantCallMessage(resp))
            /\ pending' = TurnCalls(resp)
            /\ turnCalls' = TurnCalls(resp)
            /\ toolTurns' = IF TurnCalls(resp) # <<>> THEN toolTurns + 1 ELSE toolTurns
            /\ pc' = IF TurnCalls(resp) # <<>> THEN "exec" ELSE "loop"
            /\ UNCHANGED <<ret, error>>
       ELSE IF ReplyEmbeddedCalls(resp) # <<>>
       THEN /\ pending' = TurnCalls(resp)
            /\ turnCalls' = TurnCalls(resp)
            /\ toolTurns' = toolTurns + 1
            /\ pc' = "exec"
            /\ UNCHANGED <<messages, ret, error>>
       ELSE /\ messages' = Append(messages, FinalMessage(resp))
            /\ ret' = FinalAnswer(resp)
            /\ pc' = "done"
            /\ turnCalls' = <<>>
            /\ UNCHANGED <<pending, error, toolTurns>>
    /\ request' = RequestPayload(messages)
    /\ UNCHANGED <<files, dirs, store, stub, asks, execLog>>
    /\ UNCHANGED hvars

\* _exec_tool_call on the next call of the turn
ExecNext ==
    /\ pc = "exec"
    /\ LET call == Head(pending)
           r == ExecToolCall(messages, files, dirs, call)
       IN  /\ messages' = r.messages
           /\ files' = r.eff.files
           /\ dirs' = r.eff.dirs
           /\ execLog' = Append(execLog, [call |-> call,
                                          before |-> [files |-> files, dirs |-> dirs],
                                          eff |-> r.eff])
           /\ IF r.eff.err # ""
              THEN /\ pc' = "raised"
                   /\ error' = r.eff.err
                   /\ UNCHANGED pending
              ELSE /\ pending' = Tail(pending)
                   /\ pc' = IF Tail(pending) = <<>> THEN "loop" ELSE "exec"
                   /\ UNCHANGED error
    /\ UNCHANGED <<loop_guard, turnCalls, reply, ret, store, stub, asks, inputs,
                   sent, toolTurns, fsAtSend, request>>
    /\ UNCHANGED hvars

Next ==
    \/ \E u \in UserInputs, st \in Stores, sb \in Stubs : AskStart(u, st, sb)
    \/ StallOut
    \/ ModelFails
    \/ \E resp \in FreeReplies : ModelReplies(resp)
    \/ ExecNext

Spec == Init /\ [][Next]_vars

-----------------------------------------------------------------------------
(* The hosting layer (api.py).  POST /generate makes one BuilderAgent per  *)
(* request and runs its ask on a worker thread, so the sessions of two     *)
(* requests interleave and share the project root; GET /files/{path}       *)
(* reads a generated file.  A conversation list lives in the heap and an   *)
(* agent holds a reference to it.  Path.write_text is open(mode "w"),      *)
(* which truncates, then write and close, which store the text at the      *)
(* start of the file: the two are separate steps of a thread.              *)

\* contents of one-character tokens: a position in the text is a byte offset
CLong == <<"a", "b", "c">>
CShort == <<"x">>

ReplyWriteLong == OneCall(FnCall("call_20", "write_file", WriteArgs(PIndex, CLong)))
ReplyWriteShort == OneCall(FnCall("call_21", "write_file", WriteArgs(PSiteIndex, CShort)))

\* the replies the model service gives the sessions of the hosting layer
HostReplies == {ReplyWriteLong, ReplyWriteShort, ReplyReadSiteIndex, ReplyFinal}

HostStores == {StoreFull}

\* the two requests served at the same time: run id -> prompt
HostPrompts == [r \in RunIds |-> IF r = "run_a" THEN S("a bakery site")
                                 ELSE S("a portfolio page")]

\* the paths asked of GET /files/{path}
GetIndex == <<"index.html">>
GetUp == <<"..", "/", "agent", "/", "tools.json">>
GetSitemap == <<"sitemap.xml">>
GetEscape == <<"..", "/", "..", "/", "etc", "/", "passwd">>

FilePaths == {GetIndex, GetUp, GetSitemap, GetEscape}

\* every agent names one and the same conversation list
MessagesRefShared(run_id) == "run_a"

\* BuilderAgent.__init__: self.messages is a list of the agent's own
MessagesRef(run_id) == run_id

\* self.messages of the agent of a run
Conversation(r) == heap[agents[r].messages]

\* the session of run r leaves msgs2 in its conversation list; what it has
\* added is recorded as appended by r
Grow(r, msgs2) ==
    /\ heap' = [heap EXCEPT ![agents[r].messages] = msgs2]
    /\ appended' = [appended EXCEPT
                       ![r] = @ \o SubSeq(msgs2, Len(Conversation(r)) + 1, Len(msgs2))]

\* a write at offset 0 of a file that holds old: what lies beyond the text
\* written stays
WriteAtStart(old, text) == text \o SubSeq(old, Len(text) + 1, Len(old))

\* the call reaches Path.write_text: a write_file call that nothing rejects
OpensFile(msgs, fl, ds, call) ==
    /\ IsDict(call)
    /\ IsDict(CallFn(call))
    /\ CallName(call) = S("write_file")
    /\ LET e == ExecToolCall(msgs, fl, ds, call).eff
       IN  e.err = "" /\ IsStr(e.result) /\ IsPrefix(<<"Wrote ">>, e.result.s)

\* path.startswith("site"), for the first tokens a path here has
SitePrefixed == {"site", "sitemap.xml"}

StartsWithSite(path) == path # <<>> /\ path[1] \in SitePrefixed

\* content.startswith("ERROR:")
ErrorPrefixed(text) ==
    text # <<>> /\ text[1] \in {"ERROR: file not found: ", "ERROR: missing path"}

\* read_site_file(path): the status of the response, its body, and the file
\* the body was read from
ReadSiteFile(fl, ds, path) ==
    LET normalized == IF StartsWithSite(path) THEN path ELSE <<"site", "/">> \o path
        e == ToolsReadFile(fl, ds, VStr(normalized))
    IN  IF e.err # ""
        THEN [path |-> path, status |-> 500, body |-> <<>>, target |-> <<>>]
        ELSE IF ErrorPrefixed(e.result.s)
        THEN [path |-> path, status |-> 404, body |-> e.result.s, target |-> <<>>]
        ELSE [path |-> path, status |-> 200, body |-> e.result.s,
              target |-> ResolvePath(VStr(normalized)).path]

HostInit ==
    /\ messages = <<SystemMessage>>
    /\ files = NoFiles
    /\ dirs = Prefixes(<<"srv", "locable", "agent">>) \cup Prefixes(SiteDir)
    /\ pc = "idle"
    /\ loop_guard = 0
    /\ pending = <<>>
    /\ turnCalls = <<>>
    /\ reply = VNone
    /\ ret = VNone
    /\ error = ""
    /\ store = StoreDown
    /\ stub = FreeStub
    /\ asks = 0
    /\ inputs = 0
    /\ sent = 0
    /\ toolTurns = 0
    /\ fsAtSend = [files |-> NoFiles, dirs |-> Prefixes(<<"srv", "locable", "agent">>)]
    /\ execLog = <<>>
    /\ request = NoRequest
    /\ agents = [r \in RunIds |-> NoAgent]
    /\ heap = [r \in RunIds |-> <<>>]
    /\ RUN_MESSAGES = [r \in {} |-> <<>>]
    /\ appended = [r \in RunIds |-> <<>>]
    /\ writeLog = <<>>
    /\ hostInputs = 0
    /\ response = NoResponse

\* POST /generate in full mode, up to the loop of ask: the agent is made,
\* then ask appends the user message and the retrieval context
Generate(r, prompt, st) ==
    /\ agents[r].pc = "new"
    /\ LET ref == MessagesRef(r)
           made == AppendRetrievalContext(<<SystemMessage, UserMessage(prompt)>>,
                                          st, RetrievalK)
       IN  /\ heap' = [heap EXCEPT ![ref] = made.messages]
           /\ appended' = [appended EXCEPT ![r] = Tail(made.messages)]
           /\ agents' = [agents EXCEPT
                            ![r] = [NoAgent EXCEPT
                                       !.pc = IF made.err = "" THEN "loop" ELSE "raised",
                                       !.messages = ref,
                                       !.error = made.err]]
    /\ UNCHANGED <<files, dirs, RUN_MESSAGES, writeLog, hostInputs, response>>
    /\ UNCHANGED svars

\* client.send raises in the session of run r: the runner raises
HostModelFails(r) ==
    /\ agents[r].pc = "loop"
    /\ agents[r].loop_guard + 1 <= LoopGuardMax
    /\ agents' = [agents EXCEPT ![r].pc = "raised",
                                ![r].error = "HTTPError",
                                ![r].loop_guard = @ + 1]
    /\ UNCHANGED <<files, dirs, heap, RUN_MESSAGES, appended, writeLog, hostInputs,
                   response>>
    /\ UNCHANGED svars

\* one round trip of the session of run r
HostModelReplies(r, resp) ==
    /\ agents[r].pc = "loop"
    /\ agents[r].loop_guard + 1 <= LoopGuardMax
    /\ resp = ReplyFinal \/ hostInputs < MaxInputs
    /\ hostInputs' = IF resp = ReplyFinal THEN hostInputs ELSE hostInputs + 1
    /\ IF ReplyError(resp) # ""
       THEN /\ agents' = [agents EXCEPT ![r].pc = "raised",
                                        ![r].error = ReplyError(resp),
                                        ![r].loop_guard = @ + 1]
            /\ UNCHANGED <<heap, appended>>
       ELSE IF Truthy(ReplyToolCalls(resp))
       THEN /\ Grow(r, Append(Conversation(r), AssistantCallMessage(resp)))
            /\ agents' = [agents EXCEPT
                             ![r].pc = IF TurnCalls(resp) # <<>> THEN "exec" ELSE "loop",
                             ![r].pending = TurnCalls(resp),
                             ![r].loop_guard = @ + 1]
       ELSE IF ReplyEmbeddedCalls(resp) # <<>>
       THEN /\ agents' = [agents EXCEPT ![r].pc = "exec",
                                        ![r].pending = TurnCalls(resp),
                                        ![r].loop_guard = @ + 1]
            /\ UNCHANGED <<heap, appended>>
       ELSE /\ Grow(r, Append(Conversation(r), FinalMessage(resp)))
            /\ agents' = [agents EXCEPT ![r].pc = "returned",
                                        ![r].ret = FinalAnswer(resp),
                                        ![r].loop_guard = @ + 1]
    /\ UNCHANGED <<files, dirs, RUN_MESSAGES, writeLog, response>>
    /\ UNCHANGED svars

\* _exec_tool_call on the next call of the turn of run r, for a call that
\* does not reach Path.write_text
HostExec(r) ==
    /\ agents[r].pc = "exec"
    /\ ~OpensFile(Conversation(r), files, dirs, Head(agents[r].pending))
    /\ LET x == ExecToolCall(Conversation(r), files, dirs, Head(agents[r].pending))
       IN  /\ Grow(r, x.messages)
           /\ files' = x.eff.files
           /\ dirs' = x.eff.dirs
           /\ agents' = [agents EXCEPT
                            ![r].pc = IF x.eff.err # "" THEN "raised"
                                      ELSE IF Tail(agents[r].pending) = <<>> THEN "loop"
                                      ELSE "exec",
                            ![r].error = x.eff.err,
                            ![r].pending = IF x.eff.err # "" THEN @ ELSE Tail(@)]
    /\ UNCHANGED <<RUN_MESSAGES, writeLog, hostInputs, response>>
    /\ UNCHANGED svars

\* a write_file call of run r up to the open of Path.write_text: the
\* directories are made and the file is created or truncated
HostOpen(r) ==
    /\ agents[r].pc = "exec"
    /\ OpensFile(Conversation(r), files, dirs, Head(agents[r].pending))
    /\ LET call == Head(agents[r].pending)
           x == ExecToolCall(Conversation(r), files, dirs, call)
           target == AnchoredTarget(Get(CallArgs(call), "path").s)
       IN  /\ files' = WriteText(files, target, <<>>)
           /\ dirs' = x.eff.dirs
           /\ agents' = [agents EXCEPT
                            ![r].pc = "writing",
                            ![r].handle = [target |-> target, text |-> x.eff.files[target]]]
    /\ UNCHANGED <<heap, RUN_MESSAGES, appended, writeLog, hostInputs, response>>
    /\ UNCHANGED svars

\* the write and the close of Path.write_text in run r, then the rest of
\* _exec_tool_call: the tool message
HostWrite(r) ==
    /\ agents[r].pc = "writing"
    /\ LET call == Head(agents[r].pending)
           h == agents[r].handle
           x == ExecToolCall(Conversation(r), files, dirs, call)
       IN  /\ files' = WriteText(files, h.target, WriteAtStart(files[h.target], h.text))
           /\ writeLog' = Append(writeLog, [run |-> r, target |-> h.target, text |-> h.text])
           /\ Grow(r, x.messages)
           /\ agents' = [agents EXCEPT
                            ![r].pc = IF Tail(agents[r].pending) = <<>> THEN "loop" ELSE "exec",
                            ![r].pending = Tail(@),
                            ![r].handle = <<>>]
    /\ UNCHANGED <<dirs, RUN_MESSAGES, hostInputs, response>>
    /\ UNCHANGED svars

\* the runner of run r after ask has returned:
\* RUN_MESSAGES[run_id] = agent.messages.copy(); then generate goes on:
\* _copy_bootstrap_to_site makes the two static directories (the bootstrap
\* assets are not there to copy)
RunnerStores(r) ==
    /\ agents[r].pc = "returned"
    /\ RUN_MESSAGES' = [x \in (DOMAIN RUN_MESSAGES) \cup {r} |->
                           IF x = r THEN Conversation(r) ELSE RUN_MESSAGES[x]]
    /\ dirs' = Mkdirs(Mkdirs(dirs, SiteDir \o <<"static">>),
                      ROOT_DIR \o <<"frontend", "static">>)
    /\ agents' = [agents EXCEPT ![r].pc = "stored"]
    /\ UNCHANGED <<files, heap, appended, writeLog, hostInputs, response>>
    /\ UNCHANGED svars

\* GET /files/{path}
GetFile(path) ==
    /\ hostInputs < MaxInputs
    /\ hostInputs' = hostInputs + 1
    /\ response' = ReadSiteFile(files, dirs, path)
    /\ UNCHANGED <<files, dirs, agents, heap, RUN_MESSAGES, appended, writeLog>>
    /\ UNCHANGED svars

HostNext ==
    \/ \E r \in RunIds, st \in HostStores : Generate(r, HostPrompts[r], st)
    \/ \E r \in RunIds : HostModelFails(r)
    \/ \E r \in RunIds, resp \in HostReplies : HostModelReplies(r, resp)
    \/ \E r \in RunIds : HostExec(r)
    \/ \E r \in RunIds : HostOpen(r)
    \/ \E r \in RunIds : HostWrite(r)
    \/ \E r \in RunIds : RunnerStores(r)
    \/ \E path \in FilePaths : GetFile(path)

Hosting == HostInit /\ [][HostNext]_vars

-----------------------------------------------------------------------------
(* The executions of tool calls, as the properties below speak of them. *)

IsCallOf(e, name) == CallName(e.call) = S(name)

PathArg(e) == Get(CallArgs(e.call), "path")

ContentArg(e) == Get(CallArgs(e.call), "content")

\* the path a write_file or a read_file call ends up naming
TargetOf(e) ==
    IF IsCallOf(e, "write_file") THEN AnchoredTarget(PathArg(e).s)
    ELSE ResolveUnderRoot(PurePath(PathArg(e).s))

\* the call names a path that resolves outside the project root
OutsideRoot(e) ==
    /\ IsCallOf(e, "write_file") \/ IsCallOf(e, "read_file")
    /\ IsStr(PathArg(e))
    /\ ~Inside(TargetOf(e), ROOT_DIR)

FsUnchanged(e) == e.eff.files = e.before.files /\ e.eff.dirs = e.before.dirs

\* the files an execution created or gave another content
ChangedFiles(e) ==
    {q \in DOMAIN e.eff.files : q \notin DOMAIN e.before.files \/ e.eff.files[q] # e.before.files[q]}

\* the execution returned the confirmation of a write
Confirmed(e) ==
    /\ e.eff.err = ""
    /\ IsStr(e.eff.result)
    /\ IsPrefix(<<"Wrote ">>, e.eff.result.s)

-----------------------------------------------------------------------------
(* C1 *)

\* C1: every executed tool call whose path resolves outside the project root
\* is rejected with the sandbox violation (the ValueError of _resolve_path)
\* and leaves every file and every directory as it was.
C1_OutsideRejectedWithoutMutation ==
    \A i \in 1..Len(execLog) :
        OutsideRoot(execLog[i]) =>
            execLog[i].eff.err = "ValueError" /\ FsUnchanged(execLog[i])

\* a write_file call with an escaping path has been executed and a directory
\* exists outside the project root
C1_DirectoryMadeOutside ==
    /\ execLog # <<>>
    /\ IsCallOf(Last(execLog), "write_file")
    /\ OutsideRoot(Last(execLog))
    /\ \E d \in dirs : ~Inside(d, ROOT_DIR) /\ d \notin Prefixes(ROOT_DIR)

-----------------------------------------------------------------------------
(* C2 *)

\* C2: every file a write_file call creates or overwrites lies inside the
\* output subtree site/ of the project root.
C2_WritesLandInSite ==
    \A i \in 1..Len(execLog) :
        IsCallOf(execLog[i], "write_file") =>
            \A q \in ChangedFiles(execLog[i]) : Inside(q, SiteDir)

\* a write_file call has created a file under the root but outside site/
C2_FileBesideSite ==
    /\ execLog # <<>>
    /\ IsCallOf(Last(execLog), "write_file")
    /\ \E q \in ChangedFiles(Last(execLog)) : Inside(q, ROOT_DIR) /\ ~Inside(q, SiteDir)

-----------------------------------------------------------------------------
(* C3 *)

\* C3: a tool call whose path resolves outside the project root never ends
\* ask with an exception: its execution returns a result, a tool message
\* carrying that result is in the conversation, and the ask has not raised.
C3_ViolationIsAToolResult ==
    \A i \in 1..Len(execLog) :
        OutsideRoot(execLog[i]) =>
            /\ execLog[i].eff.err = ""
            /\ pc # "raised"
            /\ \E j \in 1..Len(messages) :
                   messages[j] = ToolMessage(execLog[i].call, execLog[i].eff.result)

\* ask has ended with the exception of an escaping read_file call, and no
\* tool message was appended for it
C3_AskRaisedOnEscape ==
    /\ execLog # <<>>
    /\ IsCallOf(Last(execLog), "read_file")
    /\ OutsideRoot(Last(execLog))
    /\ pc = "raised"
    /\ error = "ValueError"
    /\ Get(Last(messages), "role") # S("tool")

-----------------------------------------------------------------------------
(* C4 *)

\* C4: an ask in which every model reply requested a tool call ends in one
\* way only: after LoopGuardMax round trips, by returning the stalled-out
\* result; it never ends by raising.
C4_ToolLoopStallsOut ==
    (pc \in {"done", "raised"} /\ sent >= 1 /\ toolTurns = sent) =>
        (pc = "done" /\ ret = Stalled /\ sent = LoopGuardMax)

\* an ask whose only reply requested a tool call has ended by raising
C4_ToolLoopRaised ==
    /\ pc = "raised"
    /\ sent = 1
    /\ toolTurns = 1
    /\ error = "ValueError"

-----------------------------------------------------------------------------
(* C5 *)

\* the reply carries one structured write_file call with an id, a relative
\* path whose first segment is not site, and a text content
RelativeWrite(resp) ==
    LET tool_calls == Get(Get(resp, "message"), "tool_calls")
        call == Elems(tool_calls)[1]
        path == Get(CallArgs(call), "path")
    IN  /\ IsList(tool_calls)
        /\ Len(Elems(tool_calls)) = 1
        /\ HasKey(call, "id")
        /\ CallName(call) = S("write_file")
        /\ IsStr(path)
        /\ IsStr(Get(CallArgs(call), "content"))
        /\ ~PurePath(path.s).abs
        /\ Parts(PurePath(path.s)) # <<>>
        /\ Parts(PurePath(path.s))[1] # "site"

\* C5: the step that executes the call of such a reply leaves the file
\* site/p with exactly the content c, appends to the assistant message one
\* tool message whose tool_call_id is the id of the call, and leaves the loop
\* about to make a further model round trip.
C5_RelativeWriteTurn ==
    [][(pc = "exec" /\ RelativeWrite(reply)) =>
           LET call == Head(pending)
               target == ResolveUnderRoot(JoinPath(PurePath(<<"site">>),
                                                   PurePath(Get(CallArgs(call), "path").s)))
           IN  /\ target \in DOMAIN files'
               /\ files'[target] = Get(CallArgs(call), "content").s
               /\ Get(Last(messages), "role") = S("assistant")
               /\ Len(messages') = Len(messages) + 1
               /\ Get(Last(messages'), "role") = S("tool")
               /\ Get(Last(messages'), "tool_call_id") = Get(call, "id")
               /\ pc' = "loop"
               /\ loop_guard < LoopGuardMax]_vars

\* the call of such a reply has been executed and ask has raised
C5_RelativeWriteRaised ==
    /\ reply # VNone
    /\ RelativeWrite(reply)
    /\ execLog # <<>>
    /\ Last(execLog).call = Head(turnCalls)
    /\ pc = "raised"
    /\ error = "ValueError"

-----------------------------------------------------------------------------
(* C6 *)

\* the reply carries no structured tool call and its text yields no embedded
\* tool call
PlainText(resp) ==
    LET message == Get(resp, "message")
    IN  /\ IsDict(message)
        /\ ~Truthy(Get(resp, "tool_calls"))
        /\ ~Truthy(Get(message, "tool_calls"))
        /\ IsStr(Get(message, "content"))
        /\ EmbeddedCalls(Get(message, "content").s) = <<>>

\* C6: once such a reply has been received, ask has returned its text as it
\* came, and files and directories are what they were when the request was
\* sent.
C6_PlainTextIsTheAnswer ==
    (reply # VNone /\ PlainText(reply)) =>
        /\ pc = "done"
        /\ ret = Get(Get(reply, "message"), "content")
        /\ files = fsAtSend.files
        /\ dirs = fsAtSend.dirs

\* ask has returned the text of a plain reply after a turn that wrote a file
C6_AnswerAfterWrite ==
    /\ pc = "done"
    /\ reply = ReplyFinal
    /\ ret = VStr(<<"Your site is ready.", LF>>)
    /\ sent = 2
    /\ files # NoFiles

-----------------------------------------------------------------------------
(* C7 *)

\* C7: the calls taken from a reply are 1 for a structured single dict, 2
\* for a structured list of two calls, and 2 for the text with two fenced
\* blocks (valid JSON; single-quote JSON with no closing fence); every call
\* taken has a name.
C7_NormalizerCounts ==
    /\ reply = ReplySingleDict => Len(turnCalls) = 1
    /\ reply = ReplyListTwo => Len(turnCalls) = 2
    /\ reply = ReplyTwoFenced => Len(turnCalls) = 2
    /\ \A i \in 1..Len(turnCalls) : Truthy(CallName(turnCalls[i]))

\* the text with two fenced blocks was received and one call was taken
C7_OneCallFromTwoBlocks ==
    /\ reply = ReplyTwoFenced
    /\ Len(turnCalls) = 1
    /\ CallName(turnCalls[1]) = S("list_files")

-----------------------------------------------------------------------------
(* C8 *)

\* C8: when a write_file call with (p, c) is confirmed and the next call
\* executed is a read_file call with the same p, the read returns exactly c.
C8_WriteThenReadReturnsContent ==
    \A i \in 1..(Len(execLog) - 1) :
        (/\ IsCallOf(execLog[i], "write_file")
         /\ Confirmed(execLog[i])
         /\ IsStr(ContentArg(execLog[i]))
         /\ IsCallOf(execLog[i + 1], "read_file")
         /\ PathArg(execLog[i + 1]) = PathArg(execLog[i])) =>
            execLog[i + 1].eff.result = ContentArg(execLog[i])

\* a text with a carriage return was written to site/notes.txt and read back
\* without it
C8_CarriageReturnLost ==
    /\ Len(execLog) >= 2
    /\ IsCallOf(execLog[Len(execLog) - 1], "write_file")
    /\ PathArg(execLog[Len(execLog) - 1]) = VStr(PNotes)
    /\ ContentArg(execLog[Len(execLog) - 1]) = VStr(<<"a", CR, LF, "b">>)
    /\ IsCallOf(Last(execLog), "read_file")
    /\ PathArg(Last(execLog)) = VStr(PNotes)
    /\ Last(execLog).eff.result = VStr(<<"a", LF, "b">>)

-----------------------------------------------------------------------------
(* C9 *)

\* C9: when the same write_file call is executed twice in a row, the second
\* execution leaves the files and directories the first one left, and both
\* return the same result (the confirmation with the same target and the
\* same byte length).
C9_WriteIdempotent ==
    \A i \in 1..(Len(execLog) - 1) :
        (/\ IsCallOf(execLog[i], "write_file")
         /\ IsCallOf(execLog[i + 1], "write_file")
         /\ CallArgs(execLog[i + 1].call) = CallArgs(execLog[i].call)) =>
            /\ execLog[i + 1].eff.files = execLog[i].eff.files
            /\ execLog[i + 1].eff.dirs = execLog[i].eff.dirs
            /\ execLog[i + 1].eff.err = execLog[i].eff.err
            /\ execLog[i + 1].eff.result = execLog[i].eff.result

\* the write of index.html was executed twice in a row and confirmed both
\* times, and site/index.html holds the content
C9_WrittenTwice ==
    /\ Len(execLog) >= 2
    /\ execLog[Len(execLog) - 1].call = Last(execLog).call
    /\ IsCallOf(Last(execLog), "write_file")
    /\ Confirmed(execLog[Len(execLog) - 1])
    /\ Confirmed(Last(execLog))
    /\ SiteDir \o <<"index.html">> \in DOMAIN files
    /\ files[SiteDir \o <<"index.html">>] = CHtml

-----------------------------------------------------------------------------
(* C10 *)

\* C10: when every call to the retrieval capability raises, the start of an
\* ask appends the user message and nothing else, raises nothing, and leaves
\* the ask at the loop, about to send its first model request.
C10_RetrievalDownChangesNothing ==
    [][(asks' = asks + 1 /\ store' = StoreDown) =>
           /\ \E u \in UserInputs : messages' = Append(messages, UserMessage(u))
           /\ pc' = "loop"
           /\ error' = ""
           /\ loop_guard' = 0]_vars

\* an ask whose retrieval calls all raise has made a model round trip, and
\* the conversation holds no retrieval message
C10_RoundTripWithoutContext ==
    /\ asks >= 1
    /\ store = StoreDown
    /\ sent >= 1
    /\ pc \in {"exec", "loop", "done"}
    /\ \A j \in 1..Len(messages) : ~IsRetrieval(messages[j])

-----------------------------------------------------------------------------
(* C11 *)

\* the positions of the messages with the role
WithRole(msgs, role) == {j \in 1..Len(msgs) : Get(msgs[j], "role") = S(role)}

\* C11 as stated: exactly one message has the role system, it is the first
\* message, and it is the system prompt of the construction.
C11_OneSystemMessage ==
    /\ WithRole(messages, "system") = {1}
    /\ messages[1] = SystemMessage

\* C11: the first message is the system prompt of the construction, and
\* every other message with the role system carries the retrieval tag; so
\* exactly one untagged system message exists, at the head.
C11_OneUntaggedSystemMessage ==
    /\ messages # <<>>
    /\ messages[1] = SystemMessage
    /\ ~IsRetrieval(messages[1])
    /\ \A j \in WithRole(messages, "system") : j = 1 \/ IsRetrieval(messages[j])

\* a second ask is under way and the conversation holds the system prompt
\* and a retrieval message, both with the role system
C11_TwoSystemRoles ==
    /\ asks = 2
    /\ Cardinality(WithRole(messages, "system")) = 2
    /\ \E j \in WithRole(messages, "system") : IsRetrieval(messages[j])

-----------------------------------------------------------------------------
(* C12 *)

\* the message at j answers a call that an earlier assistant message carries
Correlated(msgs, j) ==
    \E i \in 1..(j - 1) :
        /\ Get(msgs[i], "role") = S("assistant")
        /\ IsList(Get(msgs[i], "tool_calls"))
        /\ \E n \in 1..Len(Elems(Get(msgs[i], "tool_calls"))) :
               LET call == Elems(Get(msgs[i], "tool_calls"))[n]
               IN  /\ IsDict(call)
                   /\ CallId(call) = Get(msgs[j], "tool_call_id")
                   /\ CallName(call) = Get(msgs[j], "name")
        /\ \A h \in (i + 1)..(j - 1) : Get(msgs[h], "role") = S("tool")

\* C12: every tool message carries the tool_call_id of a call that an
\* assistant message appended earlier in the same turn carries in its
\* tool_calls, for structured calls and for calls embedded in text.
C12_ToolMessagesCorrelated ==
    \A j \in WithRole(messages, "tool") : Correlated(messages, j)

\* a call embedded in text was executed: its tool message follows the user
\* message with no assistant message in between
C12_OrphanToolMessage ==
    /\ reply = ReplyTwoFenced
    /\ Len(messages) >= 2
    /\ Get(Last(messages), "role") = S("tool")
    /\ Get(Last(messages), "tool_call_id") = VStr(<<"tool_", "list_files">>)
    /\ Get(messages[Len(messages) - 1], "role") # S("assistant")

-----------------------------------------------------------------------------
(* C13 *)

\* the structured calls a reply lists
Listed(resp) == NormalizeCalls(ReplyToolCalls(resp))

\* the last k + 1 messages are the assistant message carrying the calls and
\* the tool messages of the first k of them, in call order
TailOfTurn(msgs, calls, k) ==
    /\ Len(msgs) > k
    /\ Get(msgs[Len(msgs) - k], "role") = S("assistant")
    /\ Get(msgs[Len(msgs) - k], "tool_calls") = VList(calls)
    /\ \A i \in 1..k :
           LET m == msgs[Len(msgs) - k + i]
           IN  /\ Get(m, "role") = S("tool")
               /\ Get(m, "tool_call_id") = CallId(calls[i])
               /\ Get(m, "name") = CallName(calls[i])

\* the last k executions are those of the first k calls, in call order
LastExecuted(log, calls, k) ==
    /\ Len(log) >= k
    /\ \A i \in 1..k : log[Len(log) - k + i].call = calls[i]

\* C13: in a turn that lists the structured calls c1..cn, when k of them
\* have been executed they are c1..ck in that order and the conversation
\* ends with the assistant message followed by their k tool messages in
\* call order; when the turn is over, k = n.
C13_CallsInOrderOneMessageEach ==
    (reply # VNone /\ Truthy(ReplyToolCalls(reply))) =>
        LET calls == Listed(reply)
            k == IF pc = "exec" THEN Len(calls) - Len(pending) ELSE Len(calls)
        IN  /\ TailOfTurn(messages, calls, k)
            /\ LastExecuted(execLog, calls, k)

\* a turn with one structured call is over and no tool message follows the
\* assistant message: the call raised
C13_CallWithoutToolMessage ==
    /\ reply # VNone
    /\ Len(Listed(reply)) = 1
    /\ pc = "raised"
    /\ error \in {"ValueError", "TypeError"}
    /\ Get(Last(messages), "role") = S("assistant")
    /\ Get(Last(messages), "tool_calls") = VList(Listed(reply))

-----------------------------------------------------------------------------
(* C14 *)

\* the arguments of the call are absent or are no mapping and do not decode
MalformedArgs(call) ==
    LET raw_args == IF Truthy(Get(call, "function"))
                    THEN Get(Get(call, "function"), "arguments")
                    ELSE Get(call, "arguments")
    IN  /\ ~IsDict(raw_args)
        /\ ~(IsStr(raw_args) /\ JsonLoads(raw_args.s).ok)

\* C14: the execution of a structured call with malformed arguments, for
\* whatever tool name, raises nothing and its result is in a tool message of
\* the conversation; a text whose embedded fragment does not decode is taken
\* as a text without calls, and ask ends with it as the answer.
C14_MalformedPayloadAbsorbed ==
    /\ \A i \in 1..Len(execLog) :
           MalformedArgs(execLog[i].call) =>
               /\ execLog[i].eff.err = ""
               /\ \E j \in 1..Len(messages) :
                      messages[j] = ToolMessage(execLog[i].call, execLog[i].eff.result)
    /\ reply = ReplyBrokenFragment =>
           pc = "done" /\ turnCalls = <<>> /\ ret = Get(Get(reply, "message"), "content")

\* a read_file call whose arguments do not decode was executed with no path
\* and ask raised
C14_ReadWithoutPathRaised ==
    /\ execLog # <<>>
    /\ IsCallOf(Last(execLog), "read_file")
    /\ MalformedArgs(Last(execLog).call)
    /\ pc = "raised"
    /\ error = "TypeError"

-----------------------------------------------------------------------------
(* C15 *)

\* the reply carries structured tool calls and a text with embedded calls
Both(resp) ==
    LET message == Get(resp, "message")
    IN  /\ IsDict(message)
        /\ Truthy(Get(message, "tool_calls"))
        /\ IsStr(Get(message, "content"))
        /\ EmbeddedCalls(Get(message, "content").s) # <<>>

\* C15: in the turn of such a reply the calls taken are the structured ones
\* alone: the calls still to execute are a tail of the structured list, and
\* the conversation ends with the assistant message followed by the tool
\* messages of the structured calls executed so far and by nothing else.
C15_StructuredCallsOnly ==
    (reply # VNone /\ Both(reply)) =>
        LET calls == Elems(Get(Get(reply, "message"), "tool_calls"))
            n == Len(calls)
            k == IF pc = "exec" \/ (pc = "raised" /\ error # "HTTPError")
                 THEN n - Len(pending)
                 ELSE n
        IN  /\ turnCalls = calls
            /\ pending = SubSeq(calls, n - Len(pending) + 1, n)
            /\ TailOfTurn(messages, calls, k)
            /\ \A i \in 1..Len(EmbeddedCalls(Get(Get(reply, "message"), "content").s)) :
                   EmbeddedCalls(Get(Get(reply, "message"), "content").s)[i] \notin
                       {execLog[h].call : h \in 1..Len(execLog)}

\* the turn of the reply with a structured list_files call and an embedded
\* write_file call is over: one tool message, and the file was not written
C15_EmbeddedWriteIgnored ==
    /\ reply = ReplyBoth
    /\ pc = "loop"
    /\ Get(Last(messages), "tool_call_id") = S("call_18")
    /\ Get(messages[Len(messages) - 1], "role") = S("assistant")
    /\ SiteDir \o <<"notes.txt">> \notin DOMAIN files

-----------------------------------------------------------------------------
(* C16 *)

\* the call is a read_file of a path inside the root where nothing exists
ReadsMissing(e) ==
    /\ IsCallOf(e, "read_file")
    /\ IsStr(PathArg(e))
    /\ Inside(TargetOf(e), ROOT_DIR)
    /\ TargetOf(e) \notin DOMAIN e.before.files
    /\ TargetOf(e) \notin e.before.dirs

\* C16: such an execution raises nothing, returns the not-found marker
\* naming the path, leaves files and directories as they were, and its
\* marker is in a tool message of the conversation.
C16_MissingFileIsAMarker ==
    \A i \in 1..Len(execLog) :
        ReadsMissing(execLog[i]) =>
            /\ execLog[i].eff.err = ""
            /\ execLog[i].eff.result =
                   VStr(<<"ERROR: file not found: ">> \o PathStr(TargetOf(execLog[i])))
            /\ FsUnchanged(execLog[i])
            /\ \E j \in 1..Len(messages) :
                   /\ Get(messages[j], "role") = S("tool")
                   /\ Get(messages[j], "tool_call_id") = Get(execLog[i].call, "id")
                   /\ Get(messages[j], "content") =
                          VStr(JsonDumps(VDict(<<Item("result", execLog[i].eff.result)>>)))

\* a read_file call of site/index.html was executed before any write, its
\* tool message is the last message and the ask goes on
C16_MarkerReturned ==
    /\ execLog # <<>>
    /\ ReadsMissing(Last(execLog))
    /\ PathArg(Last(execLog)) = VStr(PSiteIndex)
    /\ pc = "loop"
    /\ Get(Last(messages), "role") = S("tool")
    /\ Get(Last(messages), "tool_call_id") = S("call_6")

-----------------------------------------------------------------------------
(* C17 *)

\* the positions of the messages that carry the retrieval tag
Tagged(msgs) == {j \in 1..Len(msgs) : Get(msgs[j], "name") = RetrievalTag}

\* C17: at most one message of the conversation carries the retrieval tag.
C17_AtMostOneTagged ==
    Cardinality(Tagged(messages)) <= 1

\* the conversation holds the retrieval message of the ask and the tool
\* message of a call of a tool named retrieval, which carries the same tag
C17_ToolMessageTagged ==
    /\ Cardinality(Tagged(messages)) = 2
    /\ \E j \in Tagged(messages) : Get(messages[j], "role") = S("system")
    /\ \E j \in Tagged(messages) : Get(messages[j], "role") = S("tool")

-----------------------------------------------------------------------------
(* C18 *)

\* the user, assistant and tool messages of a conversation, in order
Kept(msgs) ==
    SelectSeq(msgs, LAMBDA m : Get(m, "role") \in {S("user"), S("assistant"), S("tool")})

\* C18: no step removes, changes or reorders a user, assistant or tool
\* message: those of the conversation before the step open those after it.
C18_MessagesStay ==
    [][IsPrefix(Kept(messages), Kept(messages'))]_vars

\* tool calls were executed and answered in the first ask, and in the second
\* ask the conversation holds no tool message any more
C18_ToolMessagesGone ==
    /\ asks = 2
    /\ \E h \in 1..Len(execLog) : execLog[h].eff.err = ""
    /\ WithRole(messages, "tool") = {}
    /\ \E j \in WithRole(messages, "assistant") : Truthy(Get(messages[j], "tool_calls"))

-----------------------------------------------------------------------------
(* C19 *)

\* C19: when ask has returned a final answer (not by the loop guard), the
\* last message is an assistant message whose content is the answer and
\* which carries no tool calls, and no model request can follow in that ask.
C19_AnswerIsLastMessage ==
    (pc = "done" /\ loop_guard <= LoopGuardMax) =>
        /\ Get(Last(messages), "role") = S("assistant")
        /\ Get(Last(messages), "content") = ret
        /\ ~HasKey(Last(messages), "tool_calls")
        /\ ~ENABLED (ModelFails \/ \E resp \in FreeReplies : ModelReplies(resp))

\* ask has returned the final text after at least one turn with tool calls
C19_AnswerAfterToolTurns ==
    /\ pc = "done"
    /\ ret = VStr(<<"Your site is ready.", LF>>)
    /\ toolTurns >= 1
    /\ sent = toolTurns + 1
    /\ Last(messages) = VDict(<<Item("role", S("assistant")), Item("content", ret)>>)

-----------------------------------------------------------------------------
(* C20 *)

\* C20: once the model call has raised, ask has ended with that error: no
\* further request is sent, no tool call is executed, nothing else happens
\* in the session.
C20_ModelFailureEndsAsk ==
    error = "HTTPError" =>
        /\ pc = "raised"
        /\ ~ENABLED (ModelFails \/ (\E resp \in FreeReplies : ModelReplies(resp)) \/ ExecNext)

\* the model call raised on the second round trip, after a turn whose tool
\* call was executed
C20_FailedAfterToolTurn ==
    /\ error = "HTTPError"
    /\ pc = "raised"
    /\ sent = 2
    /\ toolTurns = 1
    /\ execLog # <<>>
    /\ pending = <<>>
-----------------------------------------------------------------------------
(* C21 *)

\* the ask has ended without a final answer: an exception left it, or the
\* loop guard stopped it
EndedWithoutAnswer == pc = "raised" \/ (pc = "done" /\ ret = Stalled)

\* the i-th execution is a completed write_file call, and no later completed
\* write_file call names the same file
LastWriteTo(log, i) ==
    /\ IsCallOf(log[i], "write_file")
    /\ Confirmed(log[i])
    /\ \A j \in (i + 1)..Len(log) :
           ~(IsCallOf(log[j], "write_file") /\ Confirmed(log[j])
             /\ TargetOf(log[j]) = TargetOf(log[i]))

\* every file a completed write_file call has written is there, with the
\* content the last such call gave it
WritesStand ==
    \A i \in 1..Len(execLog) :
        LastWriteTo(execLog, i) =>
            /\ TargetOf(execLog[i]) \in DOMAIN files
            /\ files[TargetOf(execLog[i])] = execLog[i].eff.files[TargetOf(execLog[i])]
            /\ Parent(TargetOf(execLog[i])) \in dirs

\* C21: no rollback.  Within an ask no step takes a message out of the
\* conversation, so the tool messages already appended stay; and when the ask
\* ends without a final answer (an exception of the model service or of a
\* tool, or the stalled-out result), every file written by a completed
\* write_file call exists with the content that was written.
C21_NoRollback ==
    /\ [](EndedWithoutAnswer => WritesStand)
    /\ [][asks' = asks => IsPrefix(messages, messages')]_vars

\* an ask stalled out after its tool calls had written the page: the page is
\* there and the conversation holds the tool message of every round trip
C21_StalledWithPageWritten ==
    /\ pc = "done"
    /\ ret = Stalled
    /\ SiteDir \o <<"index.html">> \in DOMAIN files
    /\ files[SiteDir \o <<"index.html">>] = CHtml
    /\ Cardinality(WithRole(messages, "tool")) = LoopGuardMax
-----------------------------------------------------------------------------
(* C24 *)

\* a message the retrieval injector has made
IsContext(m) == Get(m, "role") = S("system") /\ IsRetrieval(m)

\* the place of the last user message of a conversation, 0 when it has none
LastUser(msgs) ==
    IF WithRole(msgs, "user") = {} THEN 0
    ELSE CHOOSE j \in WithRole(msgs, "user") : \A h \in WithRole(msgs, "user") : h <= j

\* C24: every retrieval-context message a model request carries was made in
\* the ask that sends the request: it stands after the user message of that
\* ask, the last user message of the conversation.
C24_GroundingIsFresh ==
    sent >= 1 =>
        \A j \in 1..Len(request.messages) :
            IsContext(request.messages[j]) => j > LastUser(request.messages)

\* the second ask found the retrieval capability down or empty-handed and
\* has sent its request with the context message of the first ask in it
C24_StaleGroundingSent ==
    /\ asks = 2
    /\ sent >= 1
    /\ store \in {StoreDown, StoreEmpty}
    /\ \E j \in 1..Len(request.messages) :
           /\ IsContext(request.messages[j])
           /\ j < LastUser(request.messages)
           /\ Get(request.messages[LastUser(request.messages)], "role") = S("user")

-----------------------------------------------------------------------------
(* C26 *)

\* the retrieval-context messages of a conversation, in order
Contexts(msgs) == SelectSeq(msgs, IsContext)

\* C26: the step that starts an ask appends the user message and then
\* refreshes the retrieval context, once, before any request of the ask is
\* sent; no later step of the ask touches the retrieval context; and every
\* model request carries the whole conversation as it is when the request
\* is sent, together with the tool schema.
C26_RefreshedOncePerAsk ==
    [][/\ asks' = asks + 1 =>
              /\ \E u \in UserInputs :
                     messages' = AppendRetrievalContext(Append(messages, UserMessage(u)),
                                                        store', RetrievalK).messages
              /\ sent' = 0
       /\ asks' = asks => Contexts(messages') = Contexts(messages)
       /\ sent' = sent + 1 => request' = [messages |-> messages, tools |-> ToolSchema]]_vars

\* the third request of an ask with grounding has been sent: it carries the
\* one context message and the messages of the two tool turns before it
C26_ThirdRequestSent ==
    /\ sent = 3
    /\ store = StoreFull
    /\ request.messages = messages
    /\ Len(Contexts(request.messages)) = 1
    /\ Cardinality(WithRole(request.messages, "tool")) >= 2
    /\ request.tools = VList(<<>>)

-----------------------------------------------------------------------------
(* C27 *)

\* the last k executions returned, and the last k messages are the tool
\* messages of the calls with the results of these executions, in call order
ResultsInjected(msgs, log, calls, k) ==
    /\ Len(msgs) >= k
    /\ Len(log) >= k
    /\ \A i \in 1..k :
           /\ log[Len(log) - k + i].eff.err = ""
           /\ msgs[Len(msgs) - k + i] = ToolMessage(calls[i], log[Len(log) - k + i].eff.result)

\* C27: a model request that follows a round trip with tool calls is sent
\* only when every call of that round trip has been executed, in order, and
\* the conversation it carries ends with the tool message of each of them.
C27_ResultsBeforeNextTurn ==
    [][(sent' = sent + 1 /\ sent >= 1) =>
           /\ pending = <<>>
           /\ LastExecuted(execLog, turnCalls, Len(turnCalls))
           /\ ResultsInjected(request'.messages, execLog, turnCalls, Len(turnCalls))]_vars

\* the request after a turn of two calls has been sent, and it carries the
\* tool messages of both
C27_SentAfterTwoCalls ==
    /\ sent >= 2
    /\ Len(request.messages) >= 3
    /\ Get(Last(request.messages), "role") = S("tool")
    /\ Get(Last(request.messages), "tool_call_id") = S("call_12")
    /\ Get(request.messages[Len(request.messages) - 1], "tool_call_id") = S("call_11")
    /\ Get(request.messages[Len(request.messages) - 2], "role") = S("assistant")

-----------------------------------------------------------------------------
(* C28 *)

\* the lines the injector joins into the snippet
SnippetParts(st) == TemplateParts(st) \o ChunkParts(st, RetrievalK)

\* the section headers of a snippet begin with one of these
SnippetHeaders ==
    {"--- Template suggestions (by description distance) ---", "CSS samples from ",
     "--- Retrieved component chunks ---"}

\* the kinds of line of a snippet
IsCssLine(line) == line # <<>> /\ line[1] = "[CSS "

IsChunkLine(line) == line # <<>> /\ line[1] = "["

IsTemplateLine(line) ==
    line # <<>> /\ line[1] \notin SnippetHeaders /\ ~IsCssLine(line) /\ ~IsChunkLine(line)

\* the characters of a style sample line after its "[CSS i] " label
CssChars(line) == Len(line) - 3

\* the characters of a chunk line after its " :: " separator
ChunkChars(line) ==
    Len(line) - (CHOOSE i \in 1..Len(line) :
                     line[i] = " :: " /\ \A h \in 1..(i - 1) : line[h] # " :: ")

\* C28: the snippet of the context message an ask has injected lists at
\* most 3 template candidates, at most 3 style samples of at most 420
\* characters each, and at most k content chunks of at most 600 characters
\* each, whatever the retrieval capability has returned.
C28_SnippetBounded ==
    (asks >= 1 /\ RetrievalError(store, RetrievalK) = "" /\ SnippetParts(store) # <<>>) =>
        LET parts == SnippetParts(store)
            lines(Kind(_)) == {i \in 1..Len(parts) : Kind(parts[i])}
        IN  /\ Contexts(messages) # <<>>
            /\ Get(Last(Contexts(messages)), "content") = VStr(JoinParts(parts))
            /\ Cardinality(lines(IsTemplateLine)) <= 3
            /\ Cardinality(lines(IsCssLine)) <= 3
            /\ \A i \in lines(IsCssLine) : CssChars(parts[i]) <= CssBudget
            /\ Cardinality(lines(IsChunkLine)) <= RetrievalK
            /\ \A i \in lines(IsChunkLine) : ChunkChars(parts[i]) <= ChunkBudget

\* the capability returned 4 template hits and 4 style samples, and the
\* context message of the ask lists all of them; the over-long texts were
\* cut and the chunks stop at k
C28_FourCandidatesListed ==
    /\ asks >= 1
    /\ store = StoreOversized
    /\ Contexts(messages) # <<>>
    /\ Get(Last(Contexts(messages)), "content") = VStr(JoinParts(SnippetParts(store)))
    /\ LET parts == SnippetParts(store)
       IN  /\ Cardinality({i \in 1..Len(parts) : IsTemplateLine(parts[i])}) = 4
           /\ Cardinality({i \in 1..Len(parts) : IsCssLine(parts[i])}) = 4
           /\ \A i \in 1..Len(parts) : IsCssLine(parts[i]) => CssChars(parts[i]) <= CssBudget
           /\ \E i \in 1..Len(parts) : IsCssLine(parts[i]) /\ CssChars(parts[i]) = CssBudget
           /\ Cardinality({i \in 1..Len(parts) : IsChunkLine(parts[i])}) = RetrievalK
           /\ \E i \in 1..Len(parts) : IsChunkLine(parts[i]) /\ ChunkChars(parts[i]) = ChunkBudget

-----------------------------------------------------------------------------
(* C29 *)

\* the sub-results of the injector: the template candidates, the style
\* samples of the best candidate, the content chunks
TemplatesFound(st) == Elems(TemplateHits(st)) # <<>>

StylesFound(st) ==
    /\ TemplatesFound(st)
    /\ Truthy(Get(Elems(TemplateHits(st))[1], "template"))
    /\ Elems(CssChunks(st)) # <<>>

ChunksFound(st) ==
    /\ Truthy(SearchHits(st))
    /\ IsDict(SearchHits(st))
    /\ Elems(FirstSet(SearchHits(st), "documents")) # <<>>

\* C29: the step that starts an ask appends a context message after the
\* user message if and only if the template candidates, the style samples
\* or the content chunks are non-empty; when all three are empty it leaves
\* the conversation as it was, the user message apart.
C29_ContextIffFound ==
    [][asks' = asks + 1 =>
           \E u \in UserInputs :
               LET base == Append(messages, UserMessage(u))
               IN  IF TemplatesFound(store') \/ StylesFound(store') \/ ChunksFound(store')
                   THEN /\ IsContext(Last(messages'))
                        /\ Front(messages') = SelectSeq(base, LAMBDA m : ~IsRetrieval(m))
                   ELSE messages' = base]_vars

\* the capability returned documents with no metadatas: the ask raised in
\* the injector and the conversation holds no context message
C29_ChunksFoundNothingAppended ==
    /\ asks = 1
    /\ store = StoreNoMetas
    /\ ChunksFound(store)
    /\ pc = "raised"
    /\ error = "IndexError"
    /\ Contexts(messages) = <<>>

-----------------------------------------------------------------------------
(* C30 *)

\* the fenced fragments of a text
Fragments(text) ==
    LET blocks == Tail(SplitOn(text, FenceJson))
    IN  [i \in 1..Len(blocks) |-> JsonContent(blocks[i])]

\* the fragment decodes, as it is or after the single-quote repair, to a
\* mapping with a name key at its top
DecodesToCall(fragment) == fragment # <<>> /\ IsCallDict(ParseFragment(fragment))

\* the reply takes the embedded-text path: no structured calls, some text
EmbeddedPath(resp) ==
    /\ resp # VNone
    /\ ReplyError(resp) = ""
    /\ ~Truthy(ReplyToolCalls(resp))
    /\ Truthy(ReplyContent(resp))

\* C30: on the embedded-text path the calls taken from a reply are as many
\* as its fenced fragments that decode, as they are or after the
\* single-quote repair, to a mapping with a top-level name key; every other
\* fragment is skipped and the scan goes on to the fragments after it.
C30_ValidFragmentsCounted ==
    (EmbeddedPath(reply) /\ pc # "raised") =>
        LET f == Fragments(ReplyContent(reply).s)
        IN  Len(turnCalls) = Cardinality({i \in 1..Len(f) : DecodesToCall(f[i])})

\* the text whose only fragment is a call in single quotes was taken as the
\* final answer: the fragment decodes after the repair, and no call was taken
C30_RepairableFragmentSkipped ==
    /\ reply = ReplyQuotedOnly
    /\ DecodesToCall(Fragments(ReplyContent(reply).s)[1])
    /\ turnCalls = <<>>
    /\ pc = "done"
    /\ ret = ReplyContent(reply)

\* the text with five fragments was received: the four that are no call
\* were skipped and the call of the fifth is the one taken
C30_LaterFragmentTaken ==
    /\ reply = ReplyMixedFragments
    /\ Len(Fragments(ReplyContent(reply).s)) = 5
    /\ Len(turnCalls) = 1
    /\ turnCalls[1] = FlatCall("list_files", EmptyDict)
    /\ pc \in {"exec", "loop"}

-----------------------------------------------------------------------------
(* C22 *)

\* C22: sessions do not share conversation state.  The conversation of
\* every agent the hosting layer has made is the system message followed by
\* exactly the messages its own session has appended, in order, whatever
\* the other session does meanwhile; and the snapshot stored for a run id is
\* that run's conversation.
C22_ConversationsApart ==
    /\ \A r \in RunIds :
           agents[r].pc # "new" => Conversation(r) = <<SystemMessage>> \o appended[r]
    /\ \A r \in DOMAIN RUN_MESSAGES : RUN_MESSAGES[r] = <<SystemMessage>> \o appended[r]

\* both requests have run to their snapshot while each wrote the page, and
\* the two snapshots differ
C22_TwoSnapshots ==
    /\ DOMAIN RUN_MESSAGES = RunIds
    /\ RUN_MESSAGES["run_a"] # RUN_MESSAGES["run_b"]
    /\ \A r \in RunIds : \E i \in 1..Len(writeLog) : writeLog[i].run = r

-----------------------------------------------------------------------------
(* C23 *)

\* the runs that have completed a write to the file
Writers(target) == {writeLog[i].run : i \in {j \in 1..Len(writeLog) : writeLog[j].target = target}}

\* a write to the file is between its open and its close
InFlight(target) ==
    \E r \in RunIds : agents[r].pc = "writing" /\ agents[r].handle.target = target

\* the text of the write to the file that completed last
LastWritten(target) ==
    LET last == CHOOSE i \in 1..Len(writeLog) :
                    /\ writeLog[i].target = target
                    /\ \A j \in (i + 1)..Len(writeLog) : writeLog[j].target # target
    IN  writeLog[last].text

\* C23: once the write_file calls of two sessions to the same path have
\* both completed, the file holds exactly the text of the call that wrote
\* last: last-write-wins, never a mixture of the two texts, never empty.
C23_LastWriteWins ==
    \A target \in DOMAIN files :
        (Writers(target) = RunIds /\ ~InFlight(target)) =>
            files[target] = LastWritten(target)

\* both sessions have completed their write of the page, the short text was
\* written last, and the page is the short text followed by the rest of the
\* long one
C23_MixedContent ==
    /\ Writers(SiteDir \o <<"index.html">>) = RunIds
    /\ ~InFlight(SiteDir \o <<"index.html">>)
    /\ LastWritten(SiteDir \o <<"index.html">>) = CShort
    /\ files[SiteDir \o <<"index.html">>] = <<"x", "b", "c">>

-----------------------------------------------------------------------------
(* C25 *)

\* C25: every file GET /files/{path} returns the content of lies inside the
\* site/ output subtree.
C25_ServedFromSite ==
    response.status = 200 => Inside(response.target, SiteDir)

\* the request for ../agent/tools.json was answered with the tool schema,
\* a file of the project root outside site/
C25_ToolSchemaServed ==
    /\ response.path = GetUp
    /\ response.status = 200
    /\ response.target = ROOT_DIR \o <<"agent", "tools.json">>
    /\ response.body = <<"[", "]">>
-----------------------------------------------------------------------------
(* C31 *)

\* the blocks of a text that follow a json fence, in the order of the text
EmbeddedBlocks(text) == Tail(SplitOn(text, FenceJson))

\* the calls of the blocks that yield one, in the order of the blocks
CallsInTextOrder(text) ==
    LET b == EmbeddedBlocks(text)
        yielding == SelectSeq([i \in 1..Len(b) |-> FragmentCalls(b[i])], LAMBDA c : c # <<>>)
    IN  [i \in 1..Len(yielding) |-> yielding[i][1]]

\* the conversation is the one of the last request followed by the tool
\* messages of the first k calls, one each, in call order
OneToolMessageEach(msgs, sentMsgs, log, calls, k) ==
    /\ Len(log) >= k
    /\ msgs = sentMsgs \o [i \in 1..k |-> ToolMessage(calls[i], log[Len(log) - k + i].eff.result)]

\* C31: on the embedded-text path the calls are executed in the order their
\* fenced fragments appear in the text; a fragment with no closing fence is
\* the rest of the text; and when k of the calls have been executed the
\* conversation has grown by exactly their k tool messages, in that order
\* (all of them when the turn is over).
C31_FragmentsInOrderOneMessageEach ==
    (EmbeddedPath(reply) /\ turnCalls # <<>> /\ error # "HTTPError") =>
        LET text == ReplyContent(reply).s
            calls == CallsInTextOrder(text)
            k == IF pc = "exec" THEN Len(calls) - Len(pending) ELSE Len(calls)
        IN  /\ turnCalls = calls
            /\ \A i \in 1..Len(EmbeddedBlocks(text)) :
                   ~Contains(EmbeddedBlocks(text)[i], <<Fence>>) =>
                       Fragments(text)[i] = Strip(EmbeddedBlocks(text)[i])
            /\ LastExecuted(execLog, calls, k)
            /\ OneToolMessageEach(messages, request.messages, execLog, calls, k)

\* the text with three fragments was received: the two writes were
\* executed in text order with a tool message each, the unclosed third
\* fragment was taken as a call, and its execution raised with no tool
\* message
C31_ThirdFragmentRaised ==
    /\ reply = ReplyEmbeddedThree
    /\ Len(turnCalls) = 3
    /\ pc = "raised"
    /\ error = "ValueError"
    /\ Len(execLog) >= 3
    /\ LastExecuted(execLog, turnCalls, 3)
    /\ OneToolMessageEach(messages, request.messages, Front(execLog), turnCalls, 2)
-----------------------------------------------------------------------------
(* C32 *)

\* the call names a tool that is none of the three
UnknownName(call) ==
    /\ IsDict(call)
    /\ IsDict(CallFn(call))
    /\ CallName(call) \notin {S("write_file"), S("read_file"), S("list_files")}

\* the result that says the tool is unknown
UnknownResult(call) == VStr(<<"Unknown tool: ">> \o Str(CallName(call)))

\* C32: the execution of a call whose name is none of write_file, read_file,
\* list_files leaves every file and directory as it was and appends the tool
\* message whose result says the tool is unknown; the turn goes on with its
\* next call or, after the last one, the loop goes on to the next round
\* trip; and no request is ever sent beyond the loop guard.
C32_UnknownToolAnswered ==
    /\ [](sent <= LoopGuardMax)
    /\ [][(pc = "exec" /\ UnknownName(Head(pending))) =>
              /\ messages' = Append(messages, ToolMessage(Head(pending), UnknownResult(Head(pending))))
              /\ files' = files
              /\ dirs' = dirs
              /\ pc' = IF Len(pending) = 1 THEN "loop" ELSE "exec"]_vars

\* a model that asks for an unknown tool on every round trip: twelve
\* requests, twelve tool messages saying so, then the stalled-out result
C32_StalledOnUnknownTool ==
    /\ stub = ScriptStub(ReplyCallTagged)
    /\ pc = "done"
    /\ ret = Stalled
    /\ sent = LoopGuardMax
    /\ Cardinality({j \in WithRole(messages, "tool") :
                       messages[j] = ToolMessage(Head(Listed(ReplyCallTagged)),
                                                 VStr(<<"Unknown tool: ", "retrieval">>))}) = LoopGuardMax
    /\ files = NoFiles
-----------------------------------------------------------------------------
(* C33 *)

\* the text with every occurrence of the two CDN references replaced by the
\* local static paths and nothing else changed
CdnReplaced(text) ==
    [i \in 1..Len(text) |->
        CASE text[i] = CdnCss -> StaticCss
          [] text[i] = CdnJs -> StaticJs
          [] OTHER -> text[i]]

HoldsCdn(text) == \E i \in 1..Len(text) : text[i] \in {CdnCss, CdnJs}

\* the execution is a write_file call that returned its confirmation
WroteFile(e) == IsCallOf(e, "write_file") /\ IsStr(PathArg(e)) /\ Confirmed(e)

\* C33: after a successful write_file call with text content the file holds
\* the content verbatim when the target is no .html file, and the content
\* with the two CDN references replaced and nothing else changed when it is
\* one; and no .html file that a write_file call has written holds either
\* CDN reference.
C33_PagesHoldNoCdnReference ==
    \A i \in 1..Len(execLog) :
        WroteFile(execLog[i]) =>
            LET e == execLog[i]
                stored == e.eff.files[TargetOf(e)]
            IN  /\ (IsStr(ContentArg(e)) /\ ~IsHtml(TargetOf(e))) => stored = ContentArg(e).s
                /\ (IsStr(ContentArg(e)) /\ IsHtml(TargetOf(e))) =>
                       stored = CdnReplaced(ContentArg(e).s)
                /\ IsHtml(TargetOf(e)) => ~HoldsCdn(stored)

\* the page was written from a content that is a list holding the text, and
\* the page holds both CDN references
C33_CdnReferenceInPage ==
    /\ execLog # <<>>
    /\ WroteFile(Last(execLog))
    /\ IsList(ContentArg(Last(execLog)))
    /\ IsHtml(TargetOf(Last(execLog)))
    /\ Contains(files[SiteDir \o <<"index.html">>], <<CdnCss, CdnJs>>)
-----------------------------------------------------------------------------
(* C34 *)

\* the execution is a list_files call that returned its listing
ListedFiles(e) == IsCallOf(e, "list_files") /\ e.eff.err = "" /\ IsList(e.eff.result)

\* the path of the file relative to the project root, as list_files gives it
RootRelative(target) == VStr(RelStr(SubSeq(target, Len(ROOT_DIR) + 1, Len(target))))

\* the listed path is relative and names a regular file below the root
NamesFileInRoot(listed, fl) ==
    /\ IsStr(listed)
    /\ listed.s # <<>>
    /\ Head(listed.s) # "/"
    /\ ResolveUnderRoot(PurePath(listed.s)) \in DOMAIN fl
    /\ Inside(ResolveUnderRoot(PurePath(listed.s)), ROOT_DIR)

\* C34: every list_files call that runs after a successful write_file call
\* returns a list holding the root-relative path of the written file exactly
\* once; and every path a list_files call returns is relative to the project
\* root and names a regular file inside it.
C34_WrittenFileListedOnce ==
    \A j \in 1..Len(execLog) :
        ListedFiles(execLog[j]) =>
            LET listing == Elems(execLog[j].eff.result)
            IN  /\ \A n \in 1..Len(listing) : NamesFileInRoot(listing[n], execLog[j].before.files)
                /\ \A i \in 1..(j - 1) :
                       WroteFile(execLog[i]) =>
                           Cardinality({n \in 1..Len(listing) :
                                          listing[n] = RootRelative(TargetOf(execLog[i]))}) = 1

\* the page was written under site/ and a later list_files call returned it
\* beside the tool schema
C34_PageListedAfterWrite ==
    /\ Len(execLog) >= 2
    /\ WroteFile(execLog[Len(execLog) - 1])
    /\ TargetOf(execLog[Len(execLog) - 1]) = SiteDir \o <<"index.html">>
    /\ ListedFiles(Last(execLog))
    /\ Len(Elems(Last(execLog).eff.result)) = 2
    /\ \E n \in 1..2 : Elems(Last(execLog).eff.result)[n] = VStr(<<"site", "/", "index.html">>)
-----------------------------------------------------------------------------
(* C35 *)

\* the call is a write_file whose arguments hold no path or the empty path
WriteWithoutPath(call) ==
    /\ IsDict(call)
    /\ IsDict(CallFn(call))
    /\ CallName(call) = S("write_file")
    /\ IsDict(CallArgs(call))
    /\ ~HasKey(CallArgs(call), "path") \/ Get(CallArgs(call), "path") = EmptyStr

\* C35: the execution of a write_file call whose path argument is missing
\* or empty changes no file and no directory and appends exactly one
\* message, the tool message of the call with the missing-path error as its
\* result.
C35_MissingPathAnswered ==
    [][(pc = "exec" /\ WriteWithoutPath(Head(pending))) =>
           /\ messages' = Append(messages, ToolMessage(Head(pending), S("ERROR: missing path")))
           /\ files' = files
           /\ dirs' = dirs]_vars

\* the turn with the two writes is over: the conversation ends with the
\* assistant message and the two tool messages with the missing-path error,
\* and no file was made
C35_BothWritesRefused ==
    /\ reply = ReplyWriteNoPath
    /\ pc = "loop"
    /\ Len(messages) >= 3
    /\ \A i \in 1..2 :
           /\ WriteWithoutPath(Listed(reply)[i])
           /\ messages[Len(messages) - 2 + i]
                  = ToolMessage(Listed(reply)[i], S("ERROR: missing path"))
    /\ Get(messages[Len(messages) - 2], "role") = S("assistant")
    /\ files = fsAtSend.files
    /\ dirs = fsAtSend.dirs
-----------------------------------------------------------------------------
(* C36 *)

\* the last round trip has not raised: its reply was taken apart and what
\* the turn has run so far has returned
RoundTripStands ==
    /\ reply # VNone
    /\ ReplyError(reply) = ""
    /\ pc \in {"exec", "loop", "done"}

\* the first message after those of the last request is an assistant
\* message holding the content of the reply, and only tool messages follow it
ReplyRecorded(msgs, sentMsgs, resp) ==
    /\ Len(msgs) > Len(sentMsgs)
    /\ Get(msgs[Len(sentMsgs) + 1], "role") = S("assistant")
    /\ Get(msgs[Len(sentMsgs) + 1], "content") = ReplyContent(resp)
    /\ \A h \in (Len(sentMsgs) + 2)..Len(msgs) : Get(msgs[h], "role") = S("tool")

\* C36: after every round trip that has not raised the conversation holds,
\* right after the messages of the request, an assistant message with the
\* content of the reply, ahead of every tool message made from that reply;
\* and no tool message directly follows a user or a system message.
C36_RepliesRecorded ==
    /\ RoundTripStands => ReplyRecorded(messages, request.messages, reply)
    /\ \A j \in WithRole(messages, "tool") :
           j > 1 /\ Get(messages[j - 1], "role") \notin {S("user"), S("system")}

\* the turn of the text with five fragments is over: the tool message of
\* its call directly follows the user message, and no message of the
\* conversation holds the text of the reply
C36_ReplyTextNotRecorded ==
    /\ reply = ReplyMixedFragments
    /\ pc = "loop"
    /\ Len(messages) >= 2
    /\ Get(Last(messages), "role") = S("tool")
    /\ Get(messages[Len(messages) - 1], "role") = S("user")
    /\ \A j \in 1..Len(messages) : Get(messages[j], "content") # ReplyContent(reply)
-----------------------------------------------------------------------------
(* C37 *)

\* the positions of the tool messages of the turn under way: those appended
\* since the last request
TurnToolMessages ==
    {j \in (Len(request.messages) + 1)..Len(messages) : Get(messages[j], "role") = S("tool")}

\* C37: the tool messages of one model turn carry pairwise distinct
\* tool_call_id values, also when the calls of the turn carry no id and the
\* ids are made up.
C37_IdsDistinctWithinTurn ==
    reply # VNone =>
        \A i, j \in TurnToolMessages :
            i # j => Get(messages[i], "tool_call_id") # Get(messages[j], "tool_call_id")

\* two write_file calls without id were executed in one turn: their tool
\* messages differ in the result and carry the same made-up id
C37_TwoResultsOneId ==
    /\ reply = ReplyEmbeddedThree
    /\ Cardinality(TurnToolMessages) = 2
    /\ \A j \in TurnToolMessages :
           Get(messages[j], "tool_call_id") = VStr(<<"tool_", "write_file">>)
    /\ \E i, j \in TurnToolMessages :
           Get(messages[i], "content") # Get(messages[j], "content")
    /\ \A n \in 1..2 : ~HasKey(turnCalls[n], "id")
-----------------------------------------------------------------------------
(* C38 *)

\* the search result of the capability holds documents and fewer metadata
\* entries than documents (none at all when the metadatas are absent)
MetasShort(st) ==
    /\ ~st.search.raises
    /\ IsDict(st.search.value)
    /\ Len(Elems(FirstSet(st.search.value, "documents"))) >= 1
    /\ Len(Elems(FirstSet(st.search.value, "metadatas")))
           < Len(Elems(FirstSet(st.search.value, "documents")))

\* C38: whatever the retrieval capability returns, the injector returns
\* without raising and ask goes on to its first model request: no ask ends
\* with an exception before a request was sent.
C38_RetrievalNeverFailsAsk ==
    (asks >= 1 /\ pc = "raised") => sent >= 1

\* the search returned two documents and one metadata entry: ask ended by
\* raising in the injector, before any request, with the user message last
C38_AskFailedBeforeFirstRequest ==
    /\ store = StoreShortMetas
    /\ MetasShort(store)
    /\ pc = "raised"
    /\ error = "IndexError"
    /\ sent = 0
    /\ Get(Last(messages), "role") = S("user")
-----------------------------------------------------------------------------
(* C39 *)

\* the reply carries no structured tool calls and its text yields no call
WithoutCalls(resp) ==
    /\ resp # VNone
    /\ ReplyError(resp) = ""
    /\ ~Truthy(ReplyToolCalls(resp))
    /\ ReplyEmbeddedCalls(resp) = <<>>

\* ask has returned through the loop guard
GuardReturned == pc = "done" /\ loop_guard > LoopGuardMax

\* C39: an ask sends at most LoopGuardMax requests; it returns the
\* stalled-out result if and only if LoopGuardMax replies in a row each
\* carried tool calls, structured or embedded; and a reply without tool
\* calls, on whichever round trip up to the last, ends the ask with its
\* content as the answer.
C39_GuardCountsTwelve ==
    /\ sent <= LoopGuardMax
    /\ GuardReturned => (ret = Stalled /\ sent = LoopGuardMax /\ toolTurns = LoopGuardMax)
    /\ (pc \in {"done", "raised"} /\ sent = LoopGuardMax /\ toolTurns = LoopGuardMax)
           => (GuardReturned /\ ret = Stalled)
    /\ (WithoutCalls(reply) /\ error # "HTTPError")
           => (pc = "done" /\ ~GuardReturned /\ ret = ReplyContent(reply))

\* twelve replies in a row carried a tool call and ask has not returned the
\* stalled-out result: the call of the twelfth raised
C39_TwelfthCallRaised ==
    /\ sent = LoopGuardMax
    /\ toolTurns = LoopGuardMax
    /\ reply = ReplyReadUp
    /\ pc = "raised"
    /\ error = "ValueError"
    /\ ret = VNone

\* the twelfth reply carried no tool call and is the answer of the ask
C39_AnswerOnTwelfthRoundTrip ==
    /\ sent = LoopGuardMax
    /\ toolTurns = LoopGuardMax - 1
    /\ WithoutCalls(reply)
    /\ pc = "done"
    /\ ret = ReplyContent(reply)

====
